-------------------------------- MODULE Config --------------------------------
(***************************************************************************)
(* The connection of the alfresco CLI: `config set` and `config delete`      *)
(* (src/cmd/config), the start of every command (init in src/cmd/root.go),    *)
(* and the lookup with which it sends its requests (httpclient.Execute,       *)
(* src/nativestore).  Every command is a process; they share the file         *)
(* .alfresco of the working directory and the key ring, and lock neither.     *)
(* A server stands for the four settings that `config set` writes together.   *)
(***************************************************************************)
EXTENDS Naturals

CONSTANTS
  Proc,        \* invocations of the CLI
  Server,      \* server URLs
  Secret,      \* pairs of user name and password
  None,        \* nothing stored, nothing sent
  MaxFaults    \* bound: failing calls on file and key ring in one behaviour

VARIABLES
  file,      \* .alfresco: a server, for its settings, Empty, Absent, or Broken: not YAML
  store,     \* key ring: the credentials of each server
  at,        \* next step of each process
  kind,      \* its command: "set", "delete", or "request" for any other
  given,     \* the arguments --server and --username/--password, None without
  config,    \* what viper read from the file when it started
  sent,      \* server and credentials of the request it has made
  exit,      \* its exit code, "none" while it runs
  faults

cfgVars == <<file, store, at, kind, given, config, sent, exit, faults>>

Absent == "absent"
Broken == "broken"
Empty == "empty"
Unread == {Absent, Broken}
Kinds == {"set", "delete", "request"}
Given == [server : Server, secret : Secret] \cup [server : {None}, secret : Secret \cup {None}]
Steps == {"idle", "read", "wipe", "run", "open", "write", "done"}

ASSUME ConfigDistinct ==
  /\ None \notin Server \cup Secret
  /\ {Absent, Broken, Empty} \cap Server = {}
ASSUME ConfigBounds == MaxFaults \in Nat

ConfigTypeOK ==
  /\ file \in Server \cup {Empty} \cup Unread
  /\ store \in [Server -> Secret \cup {None}]
  /\ at \in [Proc -> Steps]
  /\ kind \in [Proc -> Kinds \cup {"none"}]
  /\ given \in [Proc -> Given]
  /\ config \in [Proc -> Server \cup {Empty} \cup Unread]
  /\ sent \in [Proc -> (Server \X Secret) \cup {None}]
  /\ exit \in [Proc -> {"none", "0", "1", "killed"}]
  /\ faults \in 0..MaxFaults

ConfigInit ==
  /\ file \in Unread
  /\ store = [s \in Server |-> None]
  /\ at = [p \in Proc |-> "idle"]
  /\ kind = [p \in Proc |-> "none"]
  /\ given = [p \in Proc |-> [server |-> None, secret |-> None]]
  /\ config = [p \in Proc |-> Absent]
  /\ sent = [p \in Proc |-> None]
  /\ exit = [p \in Proc |-> "none"]
  /\ faults = 0
-----------------------------------------------------------------------------
GoOn(p, from, to) == at[p] = from /\ at' = [at EXCEPT ![p] = to] /\ UNCHANGED exit
End(p, code) == at' = [at EXCEPT ![p] = "done"] /\ exit' = [exit EXCEPT ![p] = code]
Fault == faults < MaxFaults /\ faults' = faults + 1

(* `config set` requires its three flags; --username and --password are one   *)
(* flag more for a request.                                                   *)
Start(p) ==
  /\ GoOn(p, "idle", "read")
  /\ \E k \in Kinds, g \in Given :
       /\ k = "set" <=> g.server # None
       /\ k = "delete" => g.secret = None
       /\ kind' = [kind EXCEPT ![p] = k]
       /\ given' = [given EXCEPT ![p] = g]
  /\ UNCHANGED <<file, store, config, sent, faults>>

(* Mistake: a file without settings counts as an error too. *)
ReadConfigStrict(p) ==
  /\ GoOn(p, "read", IF file \in Server THEN "run" ELSE "wipe")
  /\ config' = [config EXCEPT ![p] = file]
  /\ UNCHANGED <<file, store, kind, given, sent, faults>>

(* viper.ReadInConfig fails on a file that is not there or is not YAML. *)
ReadConfig(p) ==
  /\ GoOn(p, "read", IF file \in Unread THEN "wipe" ELSE "run")
  /\ config' = [config EXCEPT ![p] = file]
  /\ UNCHANGED <<file, store, kind, given, sent, faults>>

(* Then os.WriteFile(".alfresco", nil) makes an empty file, also of the one   *)
(* that another process has written meanwhile.                                *)
WipeConfig(p) ==
  /\ GoOn(p, "wipe", "run")
  /\ \/ file' = Empty /\ UNCHANGED faults
     \/ Fault /\ UNCHANGED file
  /\ UNCHANGED <<store, kind, given, config, sent>>
-----------------------------------------------------------------------------
(* Mistake: the error of the key ring is ignored. *)
SetCredentialsUnchecked(p) ==
  /\ kind[p] = "set" /\ GoOn(p, "run", "open")
  /\ \/ store' = [store EXCEPT ![given[p].server] = given[p].secret] /\ UNCHANGED faults
     \/ Fault /\ UNCHANGED store
  /\ UNCHANGED <<file, kind, given, config, sent>>

(* config set: the credentials first, and nothing more if that fails. *)
SetCredentials(p) ==
  /\ kind[p] = "set" /\ at[p] = "run"
  /\ \/ /\ store' = [store EXCEPT ![given[p].server] = given[p].secret]
        /\ GoOn(p, "run", "open")
        /\ UNCHANGED faults
     \/ Fault /\ End(p, "1") /\ UNCHANGED store
  /\ UNCHANGED <<file, kind, given, config, sent>>

(* viper.WriteConfig finds the file, empties it and writes all settings; its *)
(* error is ignored.                                                          *)
OpenConfig(p) ==
  /\ at[p] = "open"
  /\ \/ file # Absent /\ GoOn(p, "open", "write") /\ file' = Empty /\ UNCHANGED faults
     \/ file = Absent /\ End(p, "0") /\ UNCHANGED <<file, faults>>
     \/ Fault /\ End(p, "0") /\ UNCHANGED file
  /\ UNCHANGED <<store, kind, given, config, sent>>

WriteConfig(p) ==
  /\ at[p] = "write"
  /\ End(p, "0")
  /\ \/ file' = given[p].server /\ UNCHANGED faults
     \/ Fault /\ UNCHANGED file
  /\ UNCHANGED <<store, kind, given, config, sent>>

(* config delete: the credentials of the configured server; the file is left *)
(* as it is.  Without a server, or where the key ring says so, an error.      *)
Delete(p) ==
  /\ kind[p] = "delete" /\ at[p] = "run"
  /\ \/ /\ config[p] \in Server
        /\ store' = [store EXCEPT ![config[p]] = None]
        /\ End(p, "0")
        /\ UNCHANGED faults
     \/ /\ config[p] \in Server => store[config[p]] = None
        /\ End(p, "1")
        /\ UNCHANGED <<store, faults>>
     \/ Fault /\ End(p, "1") /\ UNCHANGED store
  /\ UNCHANGED <<file, kind, given, config, sent>>

(* Mistake: the error of the key ring is ignored. *)
RequestAnyway(p) ==
  /\ kind[p] = "request" /\ at[p] = "run" /\ config[p] \in Server
  /\ sent' = [sent EXCEPT ![p] = <<config[p], store[config[p]]>>]
  /\ End(p, "0")
  /\ UNCHANGED <<file, store, kind, given, config, faults>>

(* Mistake: the settings are read again for the credentials. *)
RequestReread(p) ==
  /\ kind[p] = "request" /\ at[p] = "run" /\ config[p] \in Server
  /\ file \in Server /\ store[file] # None
  /\ sent' = [sent EXCEPT ![p] = <<config[p], store[file]>>]
  /\ End(p, "0")
  /\ UNCHANGED <<file, store, kind, given, config, faults>>

(* httpclient.Execute, up to the request: the server of the settings that     *)
(* were read at the start, and the credentials given or stored for it.        *)
Request(p) ==
  /\ kind[p] = "request" /\ at[p] = "run"
  /\ LET secret == IF given[p].secret # None THEN given[p].secret
                   ELSE IF config[p] \in Server THEN store[config[p]] ELSE None IN
       \/ /\ config[p] \in Server /\ secret # None
          /\ sent' = [sent EXCEPT ![p] = <<config[p], secret>>]
          /\ End(p, "0")
          /\ UNCHANGED faults
       \/ /\ config[p] \notin Server \/ secret = None
          /\ End(p, "1")
          /\ UNCHANGED <<sent, faults>>
       \/ Fault /\ given[p].secret = None /\ End(p, "1") /\ UNCHANGED sent
  /\ UNCHANGED <<file, store, kind, given, config>>

(* A process is killed: what it has done stays done. *)
Kill(p) ==
  /\ at[p] \notin {"idle", "done"}
  /\ End(p, "killed")
  /\ UNCHANGED <<file, store, kind, given, config, sent, faults>>

ConfigNext ==
  \E p \in Proc :
    \/ Start(p) \/ ReadConfig(p) \/ WipeConfig(p)
    \/ SetCredentials(p) \/ OpenConfig(p) \/ WriteConfig(p)
    \/ Delete(p) \/ Request(p) \/ Kill(p)

ConfigSpec == ConfigInit /\ [][ConfigNext]_cfgVars
=============================================================================
