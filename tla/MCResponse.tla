----------------------------- MODULE MCResponse -----------------------------
(***************************************************************************)
(* Instances of Response: a head, its additional headers and a payload     *)
(* take several writes each, and a file has more bytes than an int counts. *)
(***************************************************************************)
EXTENDS Response, TLC

CONSTANTS i1, i2, v1, v2

MCCode == {200, 204, 404}
MCHeadLen == [code \in MCCode |-> 1]
MCNameLen == [name \in Name |-> 0]
MCPageLen == [code \in MCCode |-> 1]
MCMimeLen == [m \in {"html"} |-> 2]

\* The path names the first file or none; what is in the other one to begin with
\* matters only after a change.
MCInit ==
  /\ ResponseInit
  /\ named # i2 /\ files[i1].version = v1
  /\ files[i2] = [kind |-> "regular", version |-> v2, size |-> 5]

\* Neither the loops that write nor the headers know anything of files: a write goes
\* wrong, and a header is lost, only while none has been changed.
MCNext == ResponseNext /\ (changes' = 0 \/ (clean' /\ built'.lost = {}))

MCSpec == MCInit /\ [][MCNext]_allVars /\ ResponseFairness
=============================================================================
