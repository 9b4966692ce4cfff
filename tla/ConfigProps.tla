----------------------------- MODULE ConfigProps -----------------------------
(***************************************************************************)
(* What the commands of Config.tla guarantee when they run side by side.     *)
(***************************************************************************)
EXTENDS Config

Started(p) == at[p] # "idle"

(* A request goes to the server of the settings its process has read, with   *)
(* credentials that a `config set` has given for this very server, whatever   *)
(* is set or deleted between its start and the lookup in the key ring         *)
(* (GetConnectionDetails, nativestore.Get), or with those of its own flags.   *)
CredentialsOfTheServer ==
  \A p \in Proc : sent[p] # None =>
    /\ sent[p][1] = config[p]
    /\ IF given[p].secret # None THEN sent[p][2] = given[p].secret
       ELSE \E q \in Proc : kind[q] = "set" /\ given[q] = [server |-> sent[p][1], secret |-> sent[p][2]]

(* The file never names a server that has no credentials, whatever fails or   *)
(* is killed half-way, unless `config delete` has removed them: `config set`  *)
(* stores the credentials before it writes the file.                          *)
NamedServerIsUsable ==
  file \in Server =>
    \/ store[file] # None
    \/ \E p \in Proc : kind[p] = "delete" /\ exit[p] = "0" /\ config[p] = file

(* "Configuration set" is true: after the only `config set` has ended, the    *)
(* file names its server, unless a call failed, or another process started    *)
(* when there was no file that could be read: such a process empties the file *)
(* whenever it gets to it (init in root.go).                                  *)
SetIsKept ==
  \A p \in Proc :
    /\ kind[p] = "set" /\ exit[p] = "0" /\ faults = 0
    /\ \A q \in Proc \ {p} : kind[q] # "set" /\ (Started(q) => config[q] \notin Unread \/ at[q] = "read")
    => file = given[p].server
=============================================================================
