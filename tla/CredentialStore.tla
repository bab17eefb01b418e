---------------------------- MODULE CredentialStore ----------------------------
(***************************************************************************)
(* The mTLS credentials on disk: internal/adapters/pki/file_store.go and   *)
(* internal/domain/identity/credentials.go.  Save writes four files one    *)
(* after the other, each truncated first; it may stop at any point (an     *)
(* error, or the end of the process) and nothing undoes what it has done.  *)
(* Load reads the four files in another order, and may run meanwhile.      *)
(*                                                                         *)
(* Each Save is given credentials of its own, known by the number of the   *)
(* call; a file holds none, some or all of what a call wrote to it.        *)
(***************************************************************************)
EXTENDS Naturals, Sequences

CONSTANT
  MaxSaves      \* bound: the calls of Save

ASSUME SavesAssumption == MaxSaves \in Nat \ {0}

VARIABLES
  files,        \* what each file holds
  save,         \* the call of Save under way (0: none), and the file it is at
  attempts,     \* calls of Save so far
  load,         \* one Load: how far it is, what it read, how it ended
  stored,       \* history: the last Save that returned nil (0: none)
  stopped       \* history: some Save did not reach its end

diskVars == <<files, save, attempts>>
historyVars == <<stored, stopped>>
vars == <<diskVars, load, historyVars>>

\* The CA first, as an operator would copy it.
SaveOrderCAFirst == <<"ca.crt", "client.key", "client.crt", "server_name">>

\* The short file first.
SaveOrderNameFirst == <<"server_name", "client.key", "client.crt", "ca.crt">>

SaveOrder == <<"client.key", "client.crt", "ca.crt", "server_name">>
LoadOrder == <<"client.crt", "client.key", "ca.crt", "server_name">>
File == {SaveOrder[i] : i \in DOMAIN SaveOrder}

Content == [of : 0..MaxSaves, part : {"none", "some", "all"}]
Absent == [of |-> 0, part |-> "none"]
Whole(n) == [of |-> n, part |-> "all"]

Idle == [call |-> 0, next |-> 1, open |-> FALSE]
Saving == save.call # 0

TypeOK ==
  /\ files \in [File -> Content]
  /\ save \in [call : 0..MaxSaves, next : 1..5, open : BOOLEAN]
  /\ attempts \in 0..MaxSaves
  /\ load \in [state : {"idle", "reading", "ok", "failed"}, next : 1..5,
               got : [File -> Content], quiet : BOOLEAN,
               stored : 0..MaxSaves, attempts : 0..MaxSaves]
  /\ stored \in 0..attempts
  /\ stopped \in BOOLEAN

Nothing == [f \in File |-> Absent]

Init ==
  /\ files = Nothing
  /\ save = Idle
  /\ attempts = 0
  /\ load = [state |-> "idle", next |-> 1, got |-> Nothing, quiet |-> TRUE,
             stored |-> 0, attempts |-> 0]
  /\ stored = 0 /\ stopped = FALSE
-----------------------------------------------------------------------------
\* A call of Save begins: MkdirAll, then the loop over the files.
StartSave ==
  /\ ~Saving /\ attempts < MaxSaves
  /\ attempts' = attempts + 1
  /\ save' = [Idle EXCEPT !.call = attempts + 1]
  /\ load' = [load EXCEPT !.quiet = FALSE]
  /\ UNCHANGED <<files, stored, stopped>>

At == SaveOrder[save.next]

\* A file that is there already is left as it is.
OpenNew ==
  /\ Saving /\ ~save.open /\ save.next <= Len(SaveOrder)
  /\ IF files[At].of # 0
       THEN files' = files /\ save' = [save EXCEPT !.next = @ + 1]
       ELSE /\ files' = [files EXCEPT ![At] = [of |-> save.call, part |-> "none"]]
            /\ save' = [save EXCEPT !.open = TRUE]
  /\ UNCHANGED <<attempts, load, historyVars>>

\* os.WriteFile opens the file and truncates it.
Open ==
  /\ Saving /\ ~save.open /\ save.next <= Len(SaveOrder)
  /\ files' = [files EXCEPT ![At] = [of |-> save.call, part |-> "none"]]
  /\ save' = [save EXCEPT !.open = TRUE]
  /\ UNCHANGED <<attempts, load, historyVars>>

\* A Load, or the end of the process, may find the file half written.
WritePart ==
  /\ Saving /\ save.open
  /\ files[At] = [of |-> save.call, part |-> "none"]
  /\ files' = [files EXCEPT ![At].part = "some"]
  /\ UNCHANGED <<save, attempts, load, historyVars>>

\* The write is complete, and the loop goes on to the next file.
Write ==
  /\ Saving /\ save.open
  /\ files' = [files EXCEPT ![At] = Whole(save.call)]
  /\ save' = [save EXCEPT !.open = FALSE, !.next = @ + 1]
  /\ UNCHANGED <<attempts, load, historyVars>>

\* A loop that ends before the last file.
ReturnEarly ==
  /\ Saving /\ ~save.open /\ save.next >= Len(SaveOrder)
  /\ save' = Idle
  /\ stored' = save.call
  /\ UNCHANGED <<files, attempts, load, stopped>>

\* Save returns nil.
Return ==
  /\ Saving /\ save.next > Len(SaveOrder)
  /\ save' = Idle
  /\ stored' = save.call
  /\ UNCHANGED <<files, attempts, load, stopped>>

\* MkdirAll or WriteFile fails, or the process ends: Save is left where it is.
Stop ==
  /\ Saving
  /\ save' = Idle
  /\ stopped' = TRUE
  /\ UNCHANGED <<files, attempts, load, stored>>

\* A call of Load begins.
StartLoad ==
  /\ load.state # "reading"
  /\ load' = [state |-> "reading", next |-> 1, got |-> Nothing,
              quiet |-> ~Saving,
              stored |-> stored, attempts |-> attempts]
  /\ UNCHANGED <<diskVars, historyVars>>

\* os.ReadFile; a missing file makes Load fail at once.
ReadFile ==
  /\ load.state = "reading" /\ load.next <= Len(LoadOrder)
  /\ LET f == LoadOrder[load.next]
     IN  load' = IF files[f].of = 0
                   THEN [load EXCEPT !.state = "failed", !.got = Nothing]
                   ELSE [load EXCEPT !.got[f] = files[f], !.next = @ + 1]
  /\ UNCHANGED <<diskVars, historyVars>>

\* NewCredentials on what was read: the key must match the certificate, and the
\* CA file must hold a certificate.  A part of a certificate file is enough if
\* it holds one certificate of several; any server name will do.
Acceptable(got) ==
  /\ got["client.key"].part = "all"
  /\ got["client.crt"].of = got["client.key"].of
  /\ got["client.crt"].part # "none" /\ got["ca.crt"].part # "none"

NewCredentials(got) ==
  {r \in {"ok", "failed"} :
     IF r = "ok" THEN Acceptable(got)
     ELSE ~Acceptable(got) \/ "some" \in {got["client.crt"].part, got["ca.crt"].part}}

EndLoad ==
  /\ load.state = "reading" /\ load.next > Len(LoadOrder)
  /\ \E r \in NewCredentials(load.got) :
       load' = [load EXCEPT !.state = r, !.got = IF r = "ok" THEN @ ELSE Nothing]
  /\ UNCHANGED <<diskVars, historyVars>>

Exists == files["client.crt"].of # 0

Next ==
  \/ StartSave \/ Open \/ WritePart \/ Write \/ Return \/ Stop
  \/ StartLoad \/ ReadFile \/ EndLoad

Spec == Init /\ [][Next]_vars
-----------------------------------------------------------------------------
\* Whatever earlier calls left behind, a Load that runs by itself after a Save
\* returned nil, and no other Save has been tried since, succeeds with exactly
\* what that Save was given: a retry repairs what a stopped Save has broken.
SavedIsLoaded ==
  load.quiet /\ load.stored = load.attempts /\ load.stored # 0 =>
    /\ load.state # "failed"
    /\ load.state = "ok" => load.got = [f \in File |-> Whole(load.stored)]

\* Rotation never goes back: a Load, even one that runs during a Save, gives a
\* certificate at least as new as the last Save that had returned nil, or fails.
\* If it runs by itself, its CA and its server name may be older than the
\* certificate but never newer.
NeverRollsBack ==
  load.state = "ok" =>
    /\ load.stored <= load.got["client.crt"].of
    /\ load.quiet =>
         /\ load.got["ca.crt"].of <= load.got["client.crt"].of
         /\ load.got["server_name"].of <= load.got["ca.crt"].of

\* A first Save that stops half way leaves nothing that Load accepts, except
\* that the server name may be cut off or empty: the last file is not checked.
FirstSaveWhole ==
  load.quiet /\ load.attempts = 1 /\ load.state = "ok" =>
    \A f \in File \ {"server_name"} : load.got[f] = Whole(1)

\* Exists may be trusted as long as no Save has stopped half way: between calls
\* it says that all four files are there, whole and of one Save.
ExistsReliable ==
  ~stopped /\ ~Saving /\ Exists
    => \E n \in 1..MaxSaves : files = [f \in File |-> Whole(n)]

\* file_store.go:77 "Exists returns true if credential files exist": a Load
\* that runs by itself finds all the files if Exists says so.
ExistsMeansAll ==
  ~Saving /\ Exists => \A f \in File : files[f].of # 0
=============================================================================
