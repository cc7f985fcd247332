--------------------------- MODULE MCWebhookOutbox ---------------------------
(***************************************************************************)
(* Instances of WebhookOutbox: the first partner has a webhook and two     *)
(* messages to be told of, the second has no webhook and one message.      *)
(***************************************************************************)
EXTENDS WebhookOutbox

CONSTANTS s1, s2, m1, m2, d1, d2

MCDeliveries == {<<s1, m1>>, <<s1, m2>>, <<s2, m1>>}
OneDelivery == {<<s1, m1>>}
==============================================================================
