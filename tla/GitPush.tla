------------------------------ MODULE GitPush ------------------------------
(***************************************************************************)
(* git push --atomic --force-with-lease, as gitcli.PushAtomic calls it.    *)
(* git itself is not part of the repository: these operators model it from *)
(* the arguments the runner builds and the outcomes it relies on.          *)
(*                                                                         *)
(* The client reads the advertised refs and decides from them.  A ref that *)
(* already holds the object is up to date: it is not sent, and its lease   *)
(* is never looked at again.  Every other ref must hold its leased value,  *)
(* or the whole push is rejected.  What is sent carries the advertised     *)
(* value, which the server compares with the ref under its lock, all refs  *)
(* in one transaction.                                                     *)
(*                                                                         *)
(* A batch of updates is a function from refs to records with the fields   *)
(* old (the lease, or the value of an absent ref) and new.                 *)
(***************************************************************************)

(* The refs of a batch the advertisement does not already satisfy. *)
Outstanding(batch, advertised) ==
    {ref \in DOMAIN batch : advertised[ref] # batch[ref].new}

(* The client rejects the push: an outstanding ref does not hold its lease. *)
Stale(batch, advertised) ==
    \E ref \in Outstanding(batch, advertised) : advertised[ref] # batch[ref].old

(* What goes over the wire: the outstanding refs and nothing else. *)
Sent(batch, advertised) ==
    [ref \in Outstanding(batch, advertised) |->
        [old |-> advertised[ref], new |-> batch[ref].new]]

(* The server's transaction succeeds when no sent ref moved meanwhile. *)
Lockable(moves, refs) == \A ref \in DOMAIN moves : refs[ref] = moves[ref].old

Landed(moves, refs) ==
    [ref \in DOMAIN refs |->
        IF ref \in DOMAIN moves THEN moves[ref].new ELSE refs[ref]]
=============================================================================
