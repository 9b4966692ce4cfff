----------------------------- MODULE ConfigProofs -----------------------------
(***************************************************************************)
(* Proofs that ConfigSpec has the properties of ConfigProps.tla, for any     *)
(* number of processes, servers, credentials and failing calls.              *)
(***************************************************************************)
EXTENDS ConfigProps, TLAPS

(* A process has a command once it has started, and the arguments of that    *)
(* command; it has its exit code when it has ended, and has sent nothing      *)
(* before.                                                                    *)
Arguments ==
  \A p \in Proc :
    /\ at[p] = "idle" => kind[p] = "none"
    /\ kind[p] = "set" => given[p] \in [server : Server, secret : Secret]
    /\ at[p] \in {"open", "write"} => kind[p] = "set"
    /\ exit[p] # "none" => at[p] = "done"
    /\ sent[p] # None => at[p] = "done"

(* Every stored pair was given by a `config set` for its server. *)
StoreGiven ==
  \A s \in Server : store[s] # None =>
    \E q \in Proc : kind[q] = "set" /\ given[q] = [server |-> s, secret |-> store[s]]

Deleted(s) == \E p \in Proc : kind[p] = "delete" /\ exit[p] = "0" /\ config[p] = s

(* Between its two steps, the credentials that `config set` has stored are    *)
(* there, or have been deleted.                                               *)
SetHasStored ==
  \A p \in Proc : at[p] \in {"open", "write"} =>
    store[given[p].server] # None \/ Deleted(given[p].server)

(* A process empties only a file that it could not read; past that, and       *)
(* while no call fails, there is a file.                                      *)
FileThere ==
  \A p \in Proc :
    /\ at[p] = "wipe" => config[p] \in Unread
    /\ faults = 0 /\ at[p] \in {"run", "open", "write"} => file # Absent

ConfigInv ==
  /\ ConfigTypeOK /\ Arguments /\ StoreGiven /\ SetHasStored /\ FileThere
  /\ CredentialsOfTheServer /\ NamedServerIsUsable /\ SetIsKept
-----------------------------------------------------------------------------
LEMMA InitInv == ConfigInit => ConfigInv
<1> SUFFICES ASSUME ConfigInit PROVE ConfigInv
  OBVIOUS
<1> USE ConfigDistinct, ConfigBounds DEF ConfigInit
<1>1. ConfigTypeOK
  BY DEF ConfigTypeOK, Given, Steps, Unread, Absent, Broken, Empty
<1>2. Arguments /\ StoreGiven /\ SetHasStored /\ FileThere
  BY DEF Arguments, StoreGiven, SetHasStored, FileThere
<1>3. CredentialsOfTheServer /\ NamedServerIsUsable /\ SetIsKept
  BY DEF CredentialsOfTheServer, NamedServerIsUsable, SetIsKept, Unread, Absent, Broken, Empty
<1> QED BY <1>1, <1>2, <1>3 DEF ConfigInv

(* What a step of process p leaves alone, and how it changes what it changes. *)
Step(p) ==
  \/ Start(p) \/ ReadConfig(p) \/ WipeConfig(p)
  \/ SetCredentials(p) \/ OpenConfig(p) \/ WriteConfig(p)
  \/ Delete(p) \/ Request(p) \/ Kill(p)

(* Arguments are given once, and the others' variables stay as they are. *)
LEMMA Others ==
  ASSUME ConfigTypeOK, NEW p \in Proc, Step(p)
  PROVE  /\ at[p] # "idle" => kind' = kind /\ given' = given
         /\ at[p] # "read" => config' = config
         /\ \A q \in Proc \ {p} :
              /\ at'[q] = at[q] /\ kind'[q] = kind[q] /\ given'[q] = given[q]
              /\ config'[q] = config[q] /\ sent'[q] = sent[q] /\ exit'[q] = exit[q]
BY DEF ConfigTypeOK, Step, Start, ReadConfig, WipeConfig, SetCredentials, OpenConfig, WriteConfig,
   Delete, Request, Kill, GoOn, End, Fault

LEMMA TypeStep ==
  ASSUME ConfigTypeOK, Arguments, NEW p \in Proc, Step(p)
  PROVE  ConfigTypeOK'
<1> USE ConfigDistinct, ConfigBounds DEF ConfigTypeOK, Steps, GoOn, End, Fault
<1>1. CASE Start(p)
  BY <1>1 DEF Start, Kinds
<1>2. CASE ReadConfig(p) \/ WipeConfig(p)
  BY <1>2 DEF ReadConfig, WipeConfig
<1>3. CASE SetCredentials(p) \/ OpenConfig(p) \/ WriteConfig(p)
  BY <1>3 DEF SetCredentials, OpenConfig, WriteConfig, Arguments
<1>4. CASE Delete(p) \/ Kill(p)
  BY <1>4 DEF Delete, Kill
<1>5. CASE Request(p)
  <2>1. given[p].secret \in Secret \cup {None}
    BY DEF Given
  <2> QED BY <1>5, <2>1 DEF Request
<1> QED BY <1>1, <1>2, <1>3, <1>4, <1>5 DEF Step

LEMMA ArgumentsStep ==
  ASSUME ConfigTypeOK, Arguments, NEW p \in Proc, Step(p)
  PROVE  Arguments'
<1> USE DEF ConfigTypeOK, Arguments, GoOn, End, Fault
<1>1. CASE Start(p)
  BY <1>1 DEF Start, Kinds, Given
<1>2. CASE ReadConfig(p) \/ WipeConfig(p) \/ Kill(p) \/ Delete(p)
  BY <1>2 DEF ReadConfig, WipeConfig, Kill, Delete
<1>3. CASE SetCredentials(p) \/ OpenConfig(p) \/ WriteConfig(p)
  BY <1>3 DEF SetCredentials, OpenConfig, WriteConfig
<1>4. CASE Request(p)
  BY <1>4 DEF Request
<1> QED BY <1>1, <1>2, <1>3, <1>4 DEF Step

(* Who changes what the processes share, and when. *)
LEMMA StoreStep ==
  ASSUME ConfigTypeOK, Arguments, NEW p \in Proc, Step(p)
  PROVE  \/ UNCHANGED store
         \/ /\ SetCredentials(p) /\ given[p].server \in Server /\ given[p].secret \in Secret
            /\ given[p] = [server |-> given[p].server, secret |-> given[p].secret]
            /\ store' = [store EXCEPT ![given[p].server] = given[p].secret]
         \/ /\ Delete(p) /\ config[p] \in Server /\ exit'[p] = "0"
            /\ store' = [store EXCEPT ![config[p]] = None]
BY DEF ConfigTypeOK, Arguments, Step, Start, ReadConfig, WipeConfig, SetCredentials, OpenConfig,
   WriteConfig, Delete, Request, Kill, End

LEMMA FileStep ==
  ASSUME ConfigTypeOK, Arguments, NEW p \in Proc, Step(p)
  PROVE  \/ UNCHANGED file
         \/ WipeConfig(p) /\ file' = Empty
         \/ OpenConfig(p) /\ file' = Empty /\ at'[p] = "write"
         \/ WriteConfig(p) /\ file' = given[p].server /\ given[p].server \in Server
BY DEF ConfigTypeOK, Arguments, Step, Start, ReadConfig, WipeConfig, SetCredentials, OpenConfig,
   WriteConfig, Delete, Request, Kill, End, GoOn

(* What one process has been told, and what it has done, stays. *)
LEMMA GivenStays ==
  ASSUME ConfigTypeOK, Arguments, NEW p \in Proc, Step(p), NEW q \in Proc, kind[q] # "none"
  PROVE  kind'[q] = kind[q] /\ given'[q] = given[q]
BY Others DEF Arguments

LEMMA DeletedStays ==
  ASSUME ConfigTypeOK, Arguments, NEW p \in Proc, Step(p), NEW s \in Server, Deleted(s)
  PROVE  Deleted(s)'
<1>1. PICK q \in Proc : kind[q] = "delete" /\ exit[q] = "0" /\ config[q] = s
  BY DEF Deleted
<1>2. at[q] = "done"
  BY <1>1 DEF Arguments
<1>3. p # q
  BY <1>2 DEF Step, Start, ReadConfig, WipeConfig, SetCredentials, OpenConfig, WriteConfig, Delete,
     Request, Kill, GoOn
<1> QED BY <1>1, <1>3, Others DEF Deleted

LEMMA StoreGivenStep ==
  ASSUME ConfigTypeOK, Arguments, StoreGiven, NEW p \in Proc, Step(p)
  PROVE  StoreGiven'
<1> SUFFICES ASSUME NEW s \in Server, store'[s] # None
             PROVE  \E q \in Proc : kind'[q] = "set" /\ given'[q] = [server |-> s, secret |-> store'[s]]
  BY DEF StoreGiven
<1>1. CASE store'[s] = store[s]
  <2>1. PICK q \in Proc : kind[q] = "set" /\ given[q] = [server |-> s, secret |-> store[s]]
    BY <1>1 DEF StoreGiven
  <2> QED BY <1>1, <2>1, GivenStays
<1>2. CASE store'[s] # store[s]
  <2>1. /\ SetCredentials(p) /\ s = given[p].server /\ store'[s] = given[p].secret
        /\ given[p] = [server |-> given[p].server, secret |-> given[p].secret]
    BY <1>2, StoreStep, ConfigDistinct DEF ConfigTypeOK
  <2>2. kind[p] = "set" /\ kind'[p] = kind[p] /\ given'[p] = given[p]
    BY <2>1 DEF SetCredentials
  <2> QED BY <2>1, <2>2
<1> QED BY <1>1, <1>2

(* A server that has credentials, or of which they were deleted, keeps them   *)
(* or has them deleted.                                                       *)
LEMMA UsableStays ==
  ASSUME ConfigTypeOK, Arguments, NEW p \in Proc, Step(p), NEW s \in Server,
         store[s] # None \/ Deleted(s)
  PROVE  store'[s] # None \/ Deleted(s)'
<1>1. CASE Deleted(s)
  BY <1>1, DeletedStays
<1>2. CASE store[s] # None /\ store'[s] # store[s]
  <2>1. CASE SetCredentials(p) /\ store' = [store EXCEPT ![given[p].server] = given[p].secret]
                              /\ given[p].server \in Server /\ given[p].secret \in Secret
    BY <1>2, <2>1, ConfigDistinct DEF ConfigTypeOK
  <2>2. CASE Delete(p) /\ config[p] \in Server /\ exit'[p] = "0"
                      /\ store' = [store EXCEPT ![config[p]] = None]
    <3>1. config[p] = s
      BY <1>2, <2>2 DEF ConfigTypeOK
    <3>2. kind'[p] = "delete" /\ config'[p] = config[p]
      BY <2>2 DEF Delete
    <3> QED BY <2>2, <3>1, <3>2 DEF Deleted
  <2> QED BY <1>2, <2>1, <2>2, StoreStep
<1> QED BY <1>1, <1>2

LEMMA SetHasStoredStep ==
  ASSUME ConfigTypeOK, Arguments, SetHasStored, NEW p \in Proc, Step(p)
  PROVE  SetHasStored'
<1> SUFFICES ASSUME NEW q \in Proc, at'[q] \in {"open", "write"}
             PROVE  (store[given[q].server] # None \/ Deleted(given[q].server))'
  BY DEF SetHasStored
<1>1. CASE at[q] \in {"open", "write"}
  <2>1. given'[q] = given[q] /\ given[q].server \in Server
    BY <1>1, GivenStays DEF Arguments
  <2>2. PICK s \in Server : s = given[q].server
    BY <2>1
  <2>3. store'[s] # None \/ Deleted(s)'
    BY <1>1, <2>2, UsableStays DEF SetHasStored
  <2> QED BY <2>1, <2>2, <2>3 DEF Deleted
<1>2. CASE at[q] \notin {"open", "write"}
  <2>1. q = p
    BY <1>2, Others
  <2>2. SetCredentials(p) /\ given[p].server \in Server /\ given[p].secret \in Secret
        /\ store' = [store EXCEPT ![given[p].server] = given[p].secret] /\ given' = given
    BY <1>2, <2>1 DEF ConfigTypeOK, Arguments, Step, Start, ReadConfig, WipeConfig, SetCredentials,
       OpenConfig, WriteConfig, Delete, Request, Kill, End, GoOn
  <2> QED BY <2>1, <2>2, ConfigDistinct DEF ConfigTypeOK
<1> QED BY <1>1, <1>2

LEMMA FileThereStep ==
  ASSUME ConfigTypeOK, Arguments, FileThere, NEW p \in Proc, Step(p)
  PROVE  FileThere'
<1>1. file' = file \/ file' = Empty \/ file' \in Server
  BY FileStep
<1>2. Absent # Empty /\ Absent \notin Server
  BY ConfigDistinct DEF Absent, Empty
<1>3. faults' = 0 => faults = 0
  BY ConfigBounds DEF ConfigTypeOK, Step, Start, ReadConfig, WipeConfig, SetCredentials, OpenConfig,
     WriteConfig, Delete, Request, Kill, Fault
<1>4. ASSUME NEW q \in Proc, q # p
      PROVE  /\ at'[q] = "wipe" => config'[q] \in Unread
             /\ faults' = 0 /\ at'[q] \in {"run", "open", "write"} => file' # Absent
  BY <1>1, <1>2, <1>3, <1>4, Others DEF FileThere
<1>5. /\ at'[p] = "wipe" => config'[p] \in Unread
      /\ faults' = 0 /\ at'[p] \in {"run", "open", "write"} => file' # Absent
  BY <1>1, <1>2, <1>3 DEF FileThere, ConfigTypeOK, Step, Start, ReadConfig, WipeConfig, SetCredentials,
     OpenConfig, WriteConfig, Delete, Request, Kill, GoOn, End, Fault, Unread
<1> QED BY <1>4, <1>5 DEF FileThere

LEMMA CredentialsStep ==
  ASSUME ConfigTypeOK, Arguments, StoreGiven, CredentialsOfTheServer, NEW p \in Proc, Step(p)
  PROVE  CredentialsOfTheServer'
<1> SUFFICES ASSUME NEW q \in Proc, sent'[q] # None
             PROVE  /\ sent'[q][1] = config'[q]
                    /\ IF given'[q].secret # None THEN sent'[q][2] = given'[q].secret
                       ELSE \E o \in Proc : /\ kind'[o] = "set"
                                            /\ given'[o] = [server |-> sent'[q][1], secret |-> sent'[q][2]]
  BY DEF CredentialsOfTheServer
<1>1. CASE sent[q] # None
  <2>1. at[q] = "done" /\ p # q
    BY <1>1 DEF Arguments, Step, Start, ReadConfig, WipeConfig, SetCredentials, OpenConfig, WriteConfig,
       Delete, Request, Kill, GoOn
  <2>2. sent'[q] = sent[q] /\ config'[q] = config[q] /\ given'[q] = given[q]
    BY <2>1, Others
  <2> QED BY <1>1, <2>2, GivenStays DEF CredentialsOfTheServer
<1>2. CASE sent[q] = None
  <2>1. q = p /\ Request(p)
    BY <1>2, Others DEF ConfigTypeOK, Step, Start, ReadConfig, WipeConfig, SetCredentials, OpenConfig,
       WriteConfig, Delete, Kill
  <2>2. /\ config[p] \in Server /\ UNCHANGED <<given, kind, config>>
        /\ sent'[p] = <<config[p], IF given[p].secret # None THEN given[p].secret ELSE store[config[p]]>>
        /\ given[p].secret = None => store[config[p]] # None
    BY <1>2, <2>1 DEF Request, ConfigTypeOK
  <2> QED BY <2>1, <2>2 DEF CredentialsOfTheServer, StoreGiven
<1> QED BY <1>1, <1>2

LEMMA NamedServerStep ==
  ASSUME ConfigTypeOK, Arguments, SetHasStored, NamedServerIsUsable, NEW p \in Proc, Step(p)
  PROVE  NamedServerIsUsable'
<1>1. PICK s \in Server \cup {Absent, Broken, Empty} : s = file'
  BY FileStep DEF ConfigTypeOK, Unread
<1> SUFFICES ASSUME s \in Server
             PROVE  store'[s] # None \/ Deleted(s)'
  BY <1>1, ConfigDistinct DEF NamedServerIsUsable, Deleted
<1>2. CASE file' = file
  BY <1>1, <1>2, UsableStays DEF NamedServerIsUsable, Deleted
<1>3. CASE WriteConfig(p) /\ s = given[p].server
  BY <1>3, UsableStays DEF SetHasStored, WriteConfig
<1>4. file' # Empty
  BY <1>1, ConfigDistinct
<1> QED BY <1>1, <1>2, <1>3, <1>4, FileStep

(* Only a process that could not read the file, or another `config set`,     *)
(* writes it after the end of a `config set`.                                 *)
LEMMA SetIsKeptStep ==
  ASSUME ConfigTypeOK, Arguments, FileThere, SetIsKept, NEW p \in Proc, Step(p)
  PROVE  SetIsKept'
<1> DEFINE Alone(q) == \A o \in Proc \ {q} :
                         kind[o] # "set" /\ (Started(o) => config[o] \notin Unread \/ at[o] = "read")
<1> SUFFICES ASSUME NEW q \in Proc, kind'[q] = "set", exit'[q] = "0", faults' = 0, Alone(q)'
             PROVE  file' = given'[q].server
  BY DEF SetIsKept
<1>0. faults = 0
  BY ConfigBounds DEF ConfigTypeOK, Step, Start, ReadConfig, WipeConfig, SetCredentials, OpenConfig,
     WriteConfig, Delete, Request, Kill, Fault
<1>1. CASE p = q
  <2>1. WriteConfig(p) \/ OpenConfig(p)
    BY <1>1 DEF ConfigTypeOK, Arguments, Step, Start, ReadConfig, WipeConfig, SetCredentials,
       Delete, Request, Kill, GoOn, End, Fault
  <2>2. ~OpenConfig(p)
    BY <1>0, <1>1 DEF ConfigTypeOK, Arguments, FileThere, OpenConfig, GoOn, Fault
  <2> QED BY <1>0, <1>1, <2>1, <2>2 DEF WriteConfig, Fault, ConfigTypeOK
<1>2. CASE p # q
  <2>1. kind[q] = "set" /\ exit[q] = "0" /\ given'[q] = given[q]
    BY <1>2, Others
  <2>2. kind'[p] # "set" /\ (at'[p] # "idle" => config'[p] \notin Unread \/ at'[p] = "read")
    BY <1>2 DEF Started
  <2>3. kind[p] # "set" /\ (at[p] # "idle" => config[p] \notin Unread \/ at[p] = "read")
    BY <2>2, Others DEF ConfigTypeOK, Arguments, Step, Start, ReadConfig, WipeConfig, SetCredentials,
       OpenConfig, WriteConfig, Delete, Request, Kill, GoOn, End
  <2>4. \A o \in Proc \ {p, q} :
          kind[o] # "set" /\ (Started(o) => config[o] \notin Unread \/ at[o] = "read")
    BY Others DEF Started
  <2>5. file = given[q].server
    BY <1>0, <1>2, <2>1, <2>3, <2>4 DEF SetIsKept, Started
  <2>6. file' = file
    BY <2>3, FileStep DEF FileThere, Arguments, WipeConfig, OpenConfig, WriteConfig, GoOn
  <2> QED BY <2>1, <2>5, <2>6
<1> QED BY <1>1, <1>2

LEMMA NextInv == ConfigInv /\ [ConfigNext]_cfgVars => ConfigInv'
<1> SUFFICES ASSUME ConfigInv, [ConfigNext]_cfgVars PROVE ConfigInv'
  OBVIOUS
<1>1. ASSUME NEW p \in Proc, Step(p) PROVE ConfigInv'
  BY <1>1, TypeStep, ArgumentsStep, StoreGivenStep, SetHasStoredStep, FileThereStep, CredentialsStep,
     NamedServerStep, SetIsKeptStep DEF ConfigInv
<1>2. CASE UNCHANGED cfgVars
  BY <1>2 DEF cfgVars, ConfigInv, ConfigTypeOK, Arguments, StoreGiven, SetHasStored, FileThere, Deleted,
     CredentialsOfTheServer, NamedServerIsUsable, SetIsKept, Started
<1> QED BY <1>1, <1>2 DEF ConfigNext, Step

(* The inductive invariant of the CLI's processes holds. *)
THEOREM ConfigInvariance == ConfigSpec => []ConfigInv
BY InitInv, NextInv, PTL DEF ConfigSpec
-----------------------------------------------------------------------------
(* Every variable keeps its type; with it, no request is sent without          *)
(* credentials.                                                               *)
THEOREM ConfigTypeCorrect == ConfigSpec => []ConfigTypeOK
BY ConfigInvariance, PTL DEF ConfigInv

(* The credentials of one server never go to another, whatever is set and     *)
(* deleted between the two lookups of a request.                               *)
THEOREM CredentialsStayHome == ConfigSpec => []CredentialsOfTheServer
BY ConfigInvariance, PTL DEF ConfigInv

(* Credentials first, file second: a set that fails half-way leaves no name    *)
(* without credentials.                                                        *)
THEOREM NamesAreUsable == ConfigSpec => []NamedServerIsUsable
BY ConfigInvariance, PTL DEF ConfigInv

(* The only `config set` is kept unless a call fails or another command began  *)
(* without a file it could read.                                               *)
THEOREM SettingsAreKept == ConfigSpec => []SetIsKept
BY ConfigInvariance, PTL DEF ConfigInv
=============================================================================
