------------------------------- MODULE MCCapture -------------------------------
(***************************************************************************)
(* Small instances of Capture for TLC.                                     *)
(***************************************************************************)
EXTENDS Capture

CONSTANTS s1, s2, s3, bank, shop

\* s1 and s2 are two broadcasts of one SMS of the bank; s3 is a later one of
\* another sender.
MCKeyOf      == [s \in Sms |-> IF s = s3 THEN "second" ELSE "first"]
MCSenderOf   == [s \in Sms |-> IF s = s3 THEN shop ELSE bank]
MCReceivedAt == [s \in Sms |-> IF s = s3 THEN 2 ELSE 1]

\* A template of the bank alone, or one that takes any sender.
MCLists == {{bank}, {NULL}}
===============================================================================
