---------------------------- MODULE BackupPromise ----------------------------
(***************************************************************************)
(* What the ring of manifest generations promises a reader (the headers of *)
(* captureManifestBackup and resolveVerifiedBackup in                      *)
(* src/main/manifest/recovery.ts): a capture that returned is what a       *)
(* reader gets from then on, whatever dies or fails, until a newer one     *)
(* takes its place.  Captures are numbered in the order they are taken.    *)
(***************************************************************************)
EXTENDS Naturals

VARIABLES
    got,      \* the capture a reader gets, 0 when nothing proves out
    acked,    \* the newest capture that returned
    damage    \* bodies the disk has damaged

vars == <<got, acked, damage>>

Init ==
    /\ got = 0
    /\ acked = 0
    /\ damage = 0

\* A capture under way becomes readable; whether it stays so is not said yet.
Publish ==
    /\ got' > got
    /\ UNCHANGED <<acked, damage>>

\* A capture that did not return is taken back, by its own failure or by a
\* crash, and never behind one that did.
TakeBack ==
    /\ got' < got
    /\ damage = 0 => got' >= acked
    /\ UNCHANGED <<acked, damage>>

\* A capture returns: it is what a reader gets.
Acknowledge ==
    /\ acked' > acked
    /\ damage = 0 => acked' = got
    /\ UNCHANGED <<got, damage>>

Damage ==
    /\ damage' = damage + 1
    /\ got' <= got
    /\ UNCHANGED acked

Next == Publish \/ TakeBack \/ Acknowledge \/ Damage

Spec == Init /\ [][Next]_vars

=============================================================================
