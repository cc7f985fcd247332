------------------------------ MODULE MCAccounts ------------------------------
(* An instance of Accounts. *)
EXTENDS Accounts

MCIds == {"owner", "delegate"} \X {1, 2}
MCAddresses == {<<"owner", 1>>, <<"delegate", 1>>, <<"delegate", 2>>}
(* The owner alone signs up anew, with the address they had.               *)
MCOwnersIds == {<<"owner", 1>>, <<"owner", 2>>, <<"delegate", 1>>}
MCFirstAddresses == {"owner", "delegate"} \X {1}
==============================================================================
