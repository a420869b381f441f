---------------------------- MODULE ReleaseLine ----------------------------
(***************************************************************************)
(* What unattended synchronization promises about releases                 *)
(* (docs/replay-model.md, "Publication" and "State"): a release is tagged  *)
(* once and for ever, the state record claims a tag only once the          *)
(* destination holds it, and no further release is tagged before the       *)
(* previous one is recorded.                                               *)
(***************************************************************************)
CONSTANTS Releases, \* the upstream releases
          None      \* the value of an absent tag

VARIABLES tags,     \* the commit each release tag of the destination names
          recorded  \* the commit the state record claims for it

(* The record claims nothing that is not there. *)
Init ==
    /\ DOMAIN tags = Releases /\ DOMAIN recorded = Releases
    /\ \A k \in Releases : recorded[k] \in {None, tags[k]}

Publish(k) ==
    /\ recorded = tags
    /\ tags[k] = None
    /\ tags'[k] # None
    /\ DOMAIN tags' = Releases
    /\ \A j \in Releases \ {k} : tags'[j] = tags[j]
    /\ UNCHANGED recorded

Record ==
    /\ recorded # tags
    /\ recorded' = tags
    /\ UNCHANGED tags

Next == Record \/ \E k \in Releases : Publish(k)

Spec == Init /\ [][Next]_<<tags, recorded>>
=============================================================================
