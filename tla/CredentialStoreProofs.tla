------------------------ MODULE CredentialStoreProofs ------------------------
(***************************************************************************)
(* The credential store, for any number of Saves.                          *)
(***************************************************************************)
EXTENDS CredentialStore, TLAPS

\* Newest first, in the order of Save; a file that shares its call with a later
\* one of the list was written to its end before that one was opened.
Layered ==
  \A i, j \in DOMAIN SaveOrder : i < j =>
    LET f == files[SaveOrder[i]]
        g == files[SaveOrder[j]]
    IN  /\ g.of <= f.of
        /\ f.of = g.of /\ f.of # 0 => f.part = "all"

\* Every file is of some call, no older than what was stored; or was never made.
Numbered ==
  \A f \in File : /\ stored <= files[f].of /\ files[f].of <= attempts
                  /\ files[f].of = 0 => files[f].part = "none"

\* How far the Save under way has come.
SaveProgress ==
  IF ~Saving THEN save = Idle
  ELSE /\ save.call = attempts /\ stored < attempts
       /\ save.open => save.next <= Len(SaveOrder)
       /\ \A i \in DOMAIN SaveOrder :
            LET f == files[SaveOrder[i]] IN
              /\ i < save.next => f = Whole(attempts)
              /\ i = save.next /\ save.open => (f.of = attempts /\ f.part # "all")
              /\ i = save.next /\ ~save.open => f.of < attempts
              /\ i > save.next => f.of < attempts

Outcome ==
  /\ ~Saving /\ ~stopped => stored = attempts
  /\ stored = attempts /\ stored # 0 => \A f \in File : files[f] = Whole(stored)

\* What a Load has read.
LoadProgress ==
  /\ load.stored <= stored
  /\ load.quiet => ~Saving /\ load.stored = stored /\ load.attempts = attempts
  /\ \A i \in DOMAIN LoadOrder :
       (load.state = "reading" /\ i < load.next) \/ load.state = "ok" =>
         LET f == LoadOrder[i] IN
           /\ load.got[f].of # 0
           /\ load.stored <= load.got[f].of
           /\ load.quiet => load.got[f] = files[f]
  /\ load.state = "ok" => Acceptable(load.got)

IInv == /\ TypeOK /\ Layered /\ Numbered /\ SaveProgress /\ Outcome /\ LoadProgress
        /\ SavedIsLoaded

USE SavesAssumption DEF SavesAssumption

\* The four files, each once in both orders.
LEMMA FourFiles ==
  /\ DOMAIN SaveOrder = 1..4 /\ DOMAIN LoadOrder = 1..4
  /\ Len(SaveOrder) = 4 /\ Len(LoadOrder) = 4
  /\ \A i \in 1..4 : SaveOrder[i] \in File /\ LoadOrder[i] \in File
  /\ \A i, j \in 1..4 : SaveOrder[i] = SaveOrder[j] => i = j
  /\ \A i, j \in 1..4 : LoadOrder[i] = LoadOrder[j] => i = j
  /\ \A f \in File : \E i \in 1..4 : SaveOrder[i] = f
  /\ \A f \in File : \E i \in 1..4 : LoadOrder[i] = f
<1>1. DOMAIN SaveOrder = 1..4 /\ DOMAIN LoadOrder = 1..4 /\ Len(SaveOrder) = 4 /\ Len(LoadOrder) = 4
  BY DEF SaveOrder, LoadOrder
<1>2. /\ SaveOrder[1] = "client.key" /\ SaveOrder[2] = "client.crt"
      /\ SaveOrder[3] = "ca.crt" /\ SaveOrder[4] = "server_name"
      /\ LoadOrder[1] = "client.crt" /\ LoadOrder[2] = "client.key"
      /\ LoadOrder[3] = "ca.crt" /\ LoadOrder[4] = "server_name"
  BY DEF SaveOrder, LoadOrder
<1>3. File = {SaveOrder[i] : i \in 1..4}
  BY <1>1 DEF File
<1>4. File = {"client.key", "client.crt", "ca.crt", "server_name"}
  BY <1>2, <1>3
<1> QED
  BY <1>1, <1>2, <1>4

\* The records of the two calls, built field by field.
LEMMA Records ==
  /\ TRUE \in BOOLEAN /\ FALSE \in BOOLEAN
  /\ \A c \in 0..MaxSaves, n \in 1..5, o \in BOOLEAN :
       [call |-> c, next |-> n, open |-> o]
         \in [call : 0..MaxSaves, next : 1..5, open : BOOLEAN]
  /\ \A t \in {"idle", "reading", "ok", "failed"}, n \in 1..5, g \in [File -> Content],
        q \in BOOLEAN, s \in 0..MaxSaves, a \in 0..MaxSaves :
       [state |-> t, next |-> n, got |-> g, quiet |-> q, stored |-> s, attempts |-> a]
         \in [state : {"idle", "reading", "ok", "failed"}, next : 1..5,
              got : [File -> Content], quiet : BOOLEAN,
              stored : 0..MaxSaves, attempts : 0..MaxSaves]
  /\ \A n \in 0..MaxSaves, p \in {"none", "some", "all"} :
       [of |-> n, part |-> p] \in Content
<1>1. TRUE \in BOOLEAN /\ FALSE \in BOOLEAN
  BY Zenon
<1> QED
  BY <1>1 DEF Content

\* The types, one by one.
LEMMA Types ==
  ASSUME TypeOK
  PROVE  /\ save = [call |-> save.call, next |-> save.next, open |-> save.open]
         /\ save.call \in 0..MaxSaves /\ save.next \in 1..5 /\ save.open \in BOOLEAN
         /\ attempts \in 0..MaxSaves /\ stored \in 0..attempts /\ stored \in 0..MaxSaves
         /\ load = [state |-> load.state, next |-> load.next, got |-> load.got,
                    quiet |-> load.quiet, stored |-> load.stored,
                    attempts |-> load.attempts]
         /\ load.state \in {"idle", "reading", "ok", "failed"} /\ load.next \in 1..5
         /\ load.got \in [File -> Content] /\ load.quiet \in BOOLEAN
         /\ load.stored \in 0..MaxSaves /\ load.attempts \in 0..MaxSaves
         /\ \A f \in File : /\ files[f] = [of |-> files[f].of, part |-> files[f].part]
                            /\ files[f].of \in 0..MaxSaves
                            /\ files[f].part \in {"none", "some", "all"}
  BY DEF TypeOK, Content


\* A call that has not begun, and none.
LEMMA Shapes ==
  /\ Nothing \in [File -> Content] /\ \A f \in File : Nothing[f] = Absent
  /\ Absent.of = 0 /\ Absent.part = "none" /\ Absent \in Content
  /\ Idle.call = 0 /\ Idle.next = 1 /\ Idle.open = FALSE
  /\ Idle \in [call : 0..MaxSaves, next : 1..5, open : BOOLEAN]
  /\ \A n \in 0..MaxSaves : Whole(n).of = n /\ Whole(n).part = "all" /\ Whole(n) \in Content
<1>1. Absent.of = 0 /\ Absent.part = "none" /\ Absent \in Content
  <2>1. 0 \in 0..MaxSaves /\ "none" \in {"none", "some", "all"}
    OBVIOUS
  <2> QED
    BY Records, <2>1 DEF Absent
<1>2. Nothing \in [File -> Content] /\ \A f \in File : Nothing[f] = Absent
  BY <1>1 DEF Nothing
<1>3. Idle \in [call : 0..MaxSaves, next : 1..5, open : BOOLEAN]
  <2>1. 0 \in 0..MaxSaves /\ 1 \in 1..5
    OBVIOUS
  <2> QED
    BY Records, <2>1 DEF Idle
<1>4. Idle.call = 0 /\ Idle.next = 1 /\ Idle.open = FALSE
  BY DEF Idle
<1>5. \A n \in 0..MaxSaves : Whole(n).of = n /\ Whole(n).part = "all" /\ Whole(n) \in Content
  BY Records DEF Whole
<1> QED
  BY <1>1, <1>2, <1>3, <1>4, <1>5

LEMMA InitIInv == Init => IInv
<1> SUFFICES ASSUME Init PROVE IInv
  OBVIOUS
<1>1. /\ files = Nothing /\ save = Idle /\ attempts = 0 /\ stored = 0 /\ stopped = FALSE
      /\ load = [state |-> "idle", next |-> 1, got |-> Nothing, quiet |-> TRUE,
                 stored |-> 0, attempts |-> 0]
  BY DEF Init
<1>2. load \in [state : {"idle", "reading", "ok", "failed"}, next : 1..5,
                got : [File -> Content], quiet : BOOLEAN,
                stored : 0..MaxSaves, attempts : 0..MaxSaves]
  <2>1. 0 \in 0..MaxSaves /\ 1 \in 1..5 /\ "idle" \in {"idle", "reading", "ok", "failed"}
    OBVIOUS
  <2> QED
    BY <1>1, <2>1, Records, Shapes
<1>3. TypeOK
  <2>1. stored \in 0..attempts /\ attempts \in 0..MaxSaves
    BY <1>1
  <2> QED
    BY <1>1, <1>2, <2>1, Records, Shapes DEF TypeOK
<1>4. Layered /\ Numbered
  BY <1>1, FourFiles, Shapes DEF Layered, Numbered
<1>5. SaveProgress /\ Outcome
  BY <1>1, Shapes DEF SaveProgress, Outcome, Saving
<1>6. load.state = "idle" /\ load.stored = 0 /\ load.attempts = 0
  BY <1>1
<1>7. LoadProgress /\ SavedIsLoaded
  BY <1>1, <1>6, Shapes DEF LoadProgress, SavedIsLoaded, Saving
<1> QED
  BY <1>3, <1>4, <1>5, <1>7 DEF IInv

\* A step of Load, or of nobody, does not disturb the disk.
LEMMA DiskUntouched ==
  ASSUME IInv, UNCHANGED <<diskVars, historyVars>>
  PROVE  Layered' /\ Numbered' /\ SaveProgress' /\ Outcome'
  BY DEF IInv, Layered, Numbered, SaveProgress, Outcome, Saving, diskVars, historyVars

LEMMA StartSaveKeepsIInv ==
  ASSUME IInv, StartSave PROVE IInv'
<1>1. /\ TypeOK /\ Layered /\ Numbered /\ SaveProgress /\ Outcome /\ LoadProgress
      /\ SavedIsLoaded
  BY DEF IInv
<1>2. /\ save.call = 0 /\ attempts < MaxSaves /\ attempts' = attempts + 1
      /\ save' = [Idle EXCEPT !.call = attempts + 1]
      /\ load' = [load EXCEPT !.quiet = FALSE]
      /\ files' = files /\ stored' = stored /\ stopped' = stopped
  BY DEF StartSave, Saving
<1>3. attempts' \in 1..MaxSaves /\ attempts \in 0..MaxSaves /\ attempts < attempts'
  BY <1>1, <1>2, Types
<1>4. save' = [call |-> attempts', next |-> 1, open |-> FALSE]
  BY <1>2 DEF Idle
<1>5. load' = [state |-> load.state, next |-> load.next, got |-> load.got,
               quiet |-> FALSE, stored |-> load.stored, attempts |-> load.attempts]
  BY <1>1, <1>2 DEF TypeOK
<1>6. TypeOK'
  <2>1. save' \in [call : 0..MaxSaves, next : 1..5, open : BOOLEAN]
    <3>1. attempts' \in 0..MaxSaves /\ 1 \in 1..5
      BY <1>3
    <3> QED
      BY <1>4, <3>1, Records
  <2>2. load' \in [state : {"idle", "reading", "ok", "failed"}, next : 1..5,
                   got : [File -> Content], quiet : BOOLEAN,
                   stored : 0..MaxSaves, attempts : 0..MaxSaves]
    BY <1>1, <1>5, Types, Records
  <2>3. stored' \in 0..attempts' /\ attempts' \in 0..MaxSaves
    BY <1>1, <1>2, <1>3, Types
  <2>4. files' \in [File -> Content] /\ stopped' \in BOOLEAN
    BY <1>1, <1>2 DEF TypeOK
  <2> QED
    BY <2>1, <2>2, <2>3, <2>4 DEF TypeOK
<1>7. Layered'
  BY <1>1, <1>2 DEF Layered
<1>8. \A f \in File : files[f].of <= attempts /\ files[f].of < attempts' /\ files[f].of <= attempts'
  <2> SUFFICES ASSUME NEW f \in File
      PROVE  files[f].of <= attempts /\ files[f].of < attempts' /\ files[f].of <= attempts'
    OBVIOUS
  <2>1. files[f].of \in 0..MaxSaves
    BY <1>1, Types
  <2>2. files[f].of <= attempts
    BY <1>1 DEF Numbered
  <2> QED
    BY <1>3, <2>1, <2>2
<1>9. Numbered'
  BY <1>1, <1>2, <1>8 DEF Numbered
<1>10. SaveProgress'
  <2>1. save'.call = attempts' /\ save'.next = 1 /\ save'.open = FALSE /\ attempts' # 0
    BY <1>3, <1>4
  <2>2. stored' < attempts'
    BY <1>1, <1>2, <1>3, Types
  <2>3. \A i \in 1..4 : ~(i < 1) /\ files'[SaveOrder[i]].of < attempts'
    BY <1>2, <1>8, FourFiles
  <2> QED
    BY <2>1, <2>2, <2>3, FourFiles DEF SaveProgress, Saving
<1>11. Outcome'
  <2>1. save'.call # 0 /\ stored' # attempts'
    BY <1>1, <1>2, <1>3, <1>4, Types
  <2> QED
    BY <2>1 DEF Outcome, Saving
<1>12. LoadProgress' /\ SavedIsLoaded'
  <2>1. /\ load'.state = load.state /\ load'.next = load.next /\ load'.got = load.got
        /\ load'.quiet = FALSE /\ load'.stored = load.stored
    BY <1>5
  <2>2. SavedIsLoaded'
    BY <2>1 DEF SavedIsLoaded
  <2> QED
    BY <1>1, <1>2, <2>1, <2>2 DEF LoadProgress
<1> QED
  BY <1>6, <1>7, <1>9, <1>10, <1>11, <1>12 DEF IInv

\* While a Save is under way no Load is undisturbed, so what Load has seen
\* needs nothing of the files as long as the stored number does not fall.
LEMMA LoadUntouched ==
  ASSUME IInv, Saving, load' = load, stored' \in Nat, stored <= stored'
  PROVE  LoadProgress' /\ SavedIsLoaded'
<1>1. TypeOK /\ LoadProgress /\ load.quiet = FALSE
  BY Types DEF IInv, LoadProgress
<1>2. load'.quiet = FALSE /\ load'.stored <= stored'
  BY <1>1, Types DEF LoadProgress
<1> QED
  BY <1>1, <1>2 DEF LoadProgress, SavedIsLoaded

\* What a step of Save inside its loop finds.
LEMMA InLoop ==
  ASSUME IInv, Saving
  PROVE  /\ save.call = attempts /\ attempts \in 1..MaxSaves /\ stored < attempts
         /\ save.next \in 1..5 /\ save.open \in BOOLEAN
         /\ save.open => save.next <= 4
         /\ \A i \in 1..4 : i < save.next => files[SaveOrder[i]] = Whole(attempts)
         /\ \A i \in 1..4 : i = save.next /\ save.open =>
              files[SaveOrder[i]].of = attempts /\ files[SaveOrder[i]].part # "all"
         /\ \A i \in 1..4 : i = save.next /\ ~save.open => files[SaveOrder[i]].of < attempts
         /\ \A i \in 1..4 : save.next < i => files[SaveOrder[i]].of < attempts
<1>1. TypeOK /\ SaveProgress
  BY DEF IInv
<1>2. save.call \in 0..MaxSaves /\ save.call # 0 /\ save.next \in 1..5
  BY <1>1, Types DEF Saving
<1>3. /\ save.call = attempts /\ stored < attempts
      /\ save.open => save.next <= 4
      /\ \A i \in 1..4 :
           LET f == files[SaveOrder[i]] IN
             /\ i < save.next => f = Whole(attempts)
             /\ i = save.next /\ save.open => (f.of = attempts /\ f.part # "all")
             /\ i = save.next /\ ~save.open => f.of < attempts
             /\ i > save.next => f.of < attempts
  BY <1>1, FourFiles DEF SaveProgress, Saving
<1> QED
  BY <1>1, <1>2, <1>3, Types

\* A step that puts one file, the one Save is at, into a state of this call.
LEMMA OneFile ==
  ASSUME IInv, Saving, NEW c \in Content, c.of = attempts, save.next \in 1..4,
         files' = [files EXCEPT ![SaveOrder[save.next]] = c],
         UNCHANGED <<attempts, stored, stopped>>
  PROVE  /\ files' \in [File -> Content]
         /\ files'[SaveOrder[save.next]] = c
         /\ \A i \in 1..4 : i # save.next => files'[SaveOrder[i]] = files[SaveOrder[i]]
         /\ Layered' /\ Numbered'
<1>1. TypeOK /\ Layered /\ Numbered
  BY DEF IInv
<1>2. files \in [File -> Content]
  BY <1>1 DEF TypeOK
<1>3. /\ files' \in [File -> Content] /\ files'[SaveOrder[save.next]] = c
      /\ \A f \in File : f # SaveOrder[save.next] => files'[f] = files[f]
  BY <1>2, FourFiles
<1>4. \A i \in 1..4 : i # save.next => files'[SaveOrder[i]] = files[SaveOrder[i]]
  BY <1>3, FourFiles
<1>5. \A f \in File : files[f].of \in 0..MaxSaves
  BY <1>1, Types
<1>6. Numbered'
  <2> SUFFICES ASSUME NEW f \in File
      PROVE  /\ stored <= files'[f].of /\ files'[f].of <= attempts
             /\ files'[f].of = 0 => files'[f].part = "none"
    BY DEF Numbered
  <2>1. CASE f = SaveOrder[save.next]
    BY <1>1, <1>3, <2>1, InLoop, Types
  <2>2. CASE f # SaveOrder[save.next]
    BY <1>1, <1>3, <2>2 DEF Numbered
  <2> QED
    BY <2>1, <2>2
<1>7. Layered'
  <2> SUFFICES ASSUME NEW i \in 1..4, NEW j \in 1..4, i < j
      PROVE  /\ files'[SaveOrder[j]].of <= files'[SaveOrder[i]].of
             /\ files'[SaveOrder[i]].of = files'[SaveOrder[j]].of /\ files'[SaveOrder[i]].of # 0
                  => files'[SaveOrder[i]].part = "all"
    BY FourFiles DEF Layered
  <2>1. /\ files[SaveOrder[j]].of <= files[SaveOrder[i]].of
        /\ files[SaveOrder[i]].of = files[SaveOrder[j]].of /\ files[SaveOrder[i]].of # 0
             => files[SaveOrder[i]].part = "all"
    BY <1>1, FourFiles DEF Layered
  <2>2. CASE i = save.next
    <3>1. files'[SaveOrder[i]].of = attempts /\ files'[SaveOrder[j]] = files[SaveOrder[j]]
      BY <1>3, <1>4, <2>2
    <3>2. files[SaveOrder[j]].of < attempts
      BY <2>2, InLoop
    <3>3. files[SaveOrder[j]].of \in 0..MaxSaves /\ attempts \in 0..MaxSaves
      BY <1>1, <1>5, FourFiles, Types
    <3> QED
      BY <3>1, <3>2, <3>3
  <2>3. CASE j = save.next
    <3>1. files'[SaveOrder[j]].of = attempts /\ files'[SaveOrder[i]] = files[SaveOrder[i]]
      BY <1>3, <1>4, <2>3
    <3>2. files[SaveOrder[i]] = Whole(attempts) /\ attempts \in 1..MaxSaves
      BY <2>3, InLoop
    <3>3. files[SaveOrder[i]].of = attempts /\ files[SaveOrder[i]].part = "all"
      BY <3>2, Shapes
    <3> QED
      BY <3>1, <3>2, <3>3
  <2>4. CASE i # save.next /\ j # save.next
    BY <1>4, <2>1, <2>4
  <2> QED
    BY <2>2, <2>3, <2>4
<1> QED
  BY <1>3, <1>4, <1>6, <1>7

\* What the steps of Save inside its loop have in common.
LEMMA LoopStep ==
  ASSUME IInv, Saving, NEW c \in Content, c.of = attempts, save.next \in 1..4,
         files' = [files EXCEPT ![SaveOrder[save.next]] = c],
         UNCHANGED <<attempts, load, historyVars>>,
         NEW n \in 1..5, NEW o \in BOOLEAN,
         save' = [call |-> save.call, next |-> n, open |-> o],
         \/ n = save.next /\ o = TRUE /\ c.part # "all"
         \/ n = save.next + 1 /\ o = FALSE /\ c = Whole(attempts)
  PROVE  IInv'
<1>1. attempts' = attempts /\ load' = load /\ stored' = stored /\ stopped' = stopped
  BY DEF historyVars
<1>2. /\ TypeOK /\ Outcome
      /\ save.call = attempts /\ attempts \in 1..MaxSaves /\ stored < attempts
  BY InLoop DEF IInv
<1>3. /\ files' \in [File -> Content] /\ Layered' /\ Numbered'
      /\ files'[SaveOrder[save.next]] = c
      /\ \A i \in 1..4 : i # save.next => files'[SaveOrder[i]] = files[SaveOrder[i]]
  BY <1>1, OneFile
<1>4. save'.call = attempts /\ save'.next = n /\ save'.open = o
  BY <1>2
<1>5. TypeOK'
  <2>1. attempts \in 0..MaxSaves
    BY <1>2
  <2>2. save' \in [call : 0..MaxSaves, next : 1..5, open : BOOLEAN]
    BY <1>2, <2>1, Records
  <2> QED
    BY <1>1, <1>2, <1>3, <2>2 DEF TypeOK
<1>6. SaveProgress'
  <2>1. save'.call # 0 /\ save'.call = attempts' /\ stored' < attempts'
    BY <1>1, <1>2, <1>4
  <2>2. save'.open => save'.next <= 4
    BY <1>4
  <2>3. \A i \in 1..4 :
          /\ i < n => files'[SaveOrder[i]] = Whole(attempts)
          /\ i = n /\ o => (files'[SaveOrder[i]].of = attempts /\ files'[SaveOrder[i]].part # "all")
          /\ i = n /\ ~o => files'[SaveOrder[i]].of < attempts
          /\ i > n => files'[SaveOrder[i]].of < attempts
    <3> SUFFICES ASSUME NEW i \in 1..4
        PROVE /\ i < n => files'[SaveOrder[i]] = Whole(attempts)
              /\ i = n /\ o => (files'[SaveOrder[i]].of = attempts /\ files'[SaveOrder[i]].part # "all")
              /\ i = n /\ ~o => files'[SaveOrder[i]].of < attempts
              /\ i > n => files'[SaveOrder[i]].of < attempts
      OBVIOUS
    <3>1. CASE i = save.next
      BY <1>3, <3>1
    <3>2. CASE i # save.next
      <4>1. files'[SaveOrder[i]] = files[SaveOrder[i]]
        BY <1>3, <3>2
      <4>2. /\ i < save.next => files[SaveOrder[i]] = Whole(attempts)
            /\ save.next < i => files[SaveOrder[i]].of < attempts
        BY InLoop
      <4>3. /\ i < n => i < save.next
            /\ i >= n => save.next < i
            /\ ~(i = n /\ o)
        BY <3>2
      <4> QED
        BY <4>1, <4>2, <4>3
    <3> QED
      BY <3>1, <3>2
  <2> QED
    BY <1>1, <1>4, <2>1, <2>2, <2>3, FourFiles DEF SaveProgress, Saving
<1>7. Outcome'
  BY <1>1, <1>2, <1>4, Types DEF Outcome, Saving
<1>8. LoadProgress' /\ SavedIsLoaded'
  BY <1>1, <1>2, LoadUntouched, Types
<1> QED
  BY <1>3, <1>5, <1>6, <1>7, <1>8 DEF IInv

LEMMA OpenKeepsIInv ==
  ASSUME IInv, Open PROVE IInv'
<1>1. /\ Saving /\ save.open = FALSE /\ save.next \in 1..4
      /\ files' = [files EXCEPT ![SaveOrder[save.next]] = [of |-> save.call, part |-> "none"]]
      /\ save' = [save EXCEPT !.open = TRUE]
      /\ UNCHANGED <<attempts, load, historyVars>>
  BY FourFiles, InLoop DEF Open, At
<1>2. save.call = attempts /\ attempts \in 0..MaxSaves /\ "none" \in {"none", "some", "all"}
  BY <1>1, InLoop
<1> DEFINE c == [of |-> save.call, part |-> "none"]
<1>3. c \in Content /\ c.of = attempts /\ c.part # "all"
  BY <1>2, Records
<1>4. save' = [call |-> save.call, next |-> save.next, open |-> TRUE]
  BY <1>1 DEF IInv, TypeOK
<1>5. save.next \in 1..5 /\ TRUE \in BOOLEAN
  BY <1>1, Records
<1> HIDE DEF c
<1> QED
  BY <1>1, <1>3, <1>4, <1>5, LoopStep DEF c

LEMMA WritePartKeepsIInv ==
  ASSUME IInv, WritePart PROVE IInv'
<1>1. /\ Saving /\ save.open = TRUE /\ save.next \in 1..4
      /\ files[SaveOrder[save.next]] = [of |-> save.call, part |-> "none"]
      /\ files' = [files EXCEPT ![SaveOrder[save.next]].part = "some"]
      /\ save' = save
      /\ UNCHANGED <<attempts, load, historyVars>>
  BY InLoop DEF WritePart, At
<1>2. save.call = attempts /\ attempts \in 0..MaxSaves /\ "some" \in {"none", "some", "all"}
  BY <1>1, InLoop
<1> DEFINE c == [of |-> save.call, part |-> "some"]
<1>3. c \in Content /\ c.of = attempts /\ c.part # "all"
  BY <1>2, Records
<1>4. save' = [call |-> save.call, next |-> save.next, open |-> TRUE]
  BY <1>1 DEF IInv, TypeOK
<1>5. save.next \in 1..5 /\ TRUE \in BOOLEAN
  BY <1>1, Records
<1>6. files' = [files EXCEPT ![SaveOrder[save.next]] = c]
  <2>1. [files[SaveOrder[save.next]] EXCEPT !.part = "some"] = c
    BY <1>1
  <2>2. files' = [files EXCEPT ![SaveOrder[save.next]]
                     = [files[SaveOrder[save.next]] EXCEPT !.part = "some"]]
    BY <1>1
  <2> QED
    BY <2>1, <2>2
<1> HIDE DEF c
<1> QED
  BY <1>1, <1>3, <1>4, <1>5, <1>6, LoopStep

LEMMA WriteKeepsIInv ==
  ASSUME IInv, Write PROVE IInv'
<1>1. /\ Saving /\ save.open = TRUE /\ save.next \in 1..4
      /\ files' = [files EXCEPT ![SaveOrder[save.next]] = Whole(save.call)]
      /\ save' = [save EXCEPT !.open = FALSE, !.next = @ + 1]
      /\ UNCHANGED <<attempts, load, historyVars>>
  BY InLoop DEF Write, At
<1>2. save.call = attempts /\ attempts \in 0..MaxSaves
  BY <1>1, InLoop
<1>3. Whole(save.call) \in Content /\ Whole(save.call).of = attempts
  BY <1>2, Shapes
<1>4. save' = [call |-> save.call, next |-> save.next + 1, open |-> FALSE]
  BY <1>1 DEF IInv, TypeOK
<1>5. save.next + 1 \in 1..5 /\ FALSE \in BOOLEAN
  BY <1>1, Records
<1> QED
  BY <1>1, <1>2, <1>3, <1>4, <1>5, LoopStep

\* The end of Save, one way or the other: the files stay as they are.
LEMMA EndOfSave ==
  ASSUME IInv, Saving, save' = Idle, UNCHANGED <<files, attempts, load>>,
         stopped' \in BOOLEAN,
         \/ stored' = stored /\ stopped' = TRUE
         \/ stored' = attempts /\ \A f \in File : files[f] = Whole(attempts)
  PROVE  IInv'
<1>1. /\ TypeOK /\ Layered /\ Numbered
      /\ attempts \in 1..MaxSaves /\ stored < attempts /\ stored \in 0..attempts
  BY InLoop, Types DEF IInv
<1>2. stored' \in 0..attempts /\ stored' \in Nat /\ stored <= stored'
  BY <1>1
<1>3. TypeOK'
  BY <1>1, <1>2, Shapes DEF TypeOK
<1>4. Layered'
  BY <1>1 DEF Layered
<1>5. Numbered'
  <2>1. ASSUME NEW f \in File PROVE stored' <= files[f].of
    <3>1. CASE stored' = stored
      BY <1>1, <3>1 DEF Numbered
    <3>2. CASE stored' = attempts /\ files[f] = Whole(attempts)
      <4>1. files[f].of = attempts
        BY <1>1, <3>2, Shapes
      <4> QED
        BY <1>1, <3>2, <4>1
    <3> QED
      BY <3>1, <3>2
  <2> QED
    BY <1>1, <2>1 DEF Numbered
<1>6. SaveProgress'
  BY Shapes DEF SaveProgress, Saving
<1>7. Outcome'
  <2>1. CASE stored' = stored /\ stopped' = TRUE
    BY <1>1, <2>1 DEF Outcome
  <2>2. CASE stored' = attempts /\ \A f \in File : files[f] = Whole(attempts)
    BY <2>2 DEF Outcome
  <2> QED
    BY <2>1, <2>2
<1>8. LoadProgress' /\ SavedIsLoaded'
  BY <1>2, LoadUntouched
<1> QED
  BY <1>3, <1>4, <1>5, <1>6, <1>7, <1>8 DEF IInv

LEMMA ReturnKeepsIInv ==
  ASSUME IInv, Return PROVE IInv'
<1>1. /\ Saving /\ save.next = 5 /\ save' = Idle /\ stored' = attempts
      /\ UNCHANGED <<files, attempts, load>> /\ stopped' = stopped
  BY InLoop, FourFiles DEF Return
<1>2. \A f \in File : files[f] = Whole(attempts)
  <2>1. \A i \in 1..4 : files[SaveOrder[i]] = Whole(attempts)
    BY <1>1, InLoop
  <2> QED
    BY <2>1, FourFiles
<1>3. stopped' \in BOOLEAN
  BY <1>1 DEF IInv, TypeOK
<1> QED
  BY <1>1, <1>2, <1>3, EndOfSave

LEMMA StopKeepsIInv ==
  ASSUME IInv, Stop PROVE IInv'
<1>1. /\ Saving /\ save' = Idle /\ stored' = stored /\ stopped' = TRUE
      /\ UNCHANGED <<files, attempts, load>>
  BY DEF Stop
<1>2. stopped' \in BOOLEAN
  BY <1>1, Records
<1> QED
  BY <1>1, <1>2, EndOfSave

LEMMA StartLoadKeepsIInv ==
  ASSUME IInv, StartLoad PROVE IInv'
<1>1. UNCHANGED <<diskVars, historyVars>>
  BY DEF StartLoad
<1>2. /\ files' = files /\ save' = save /\ attempts' = attempts
      /\ stored' = stored /\ stopped' = stopped
  BY <1>1 DEF diskVars, historyVars
<1>3. PICK q \in BOOLEAN :
        /\ q => ~Saving
        /\ load' = [state |-> "reading", next |-> 1, got |-> Nothing, quiet |-> q,
                    stored |-> stored, attempts |-> attempts]
  <2>1. (~Saving) \in BOOLEAN
    BY Zenon DEF Saving
  <2>2. load' = [state |-> "reading", next |-> 1, got |-> Nothing, quiet |-> ~Saving,
                 stored |-> stored, attempts |-> attempts]
    BY DEF StartLoad
  <2> QED
    BY <2>1, <2>2, Zenon
<1>4. /\ load'.state = "reading" /\ load'.next = 1 /\ load'.quiet = q
      /\ load'.stored = stored /\ load'.attempts = attempts
  BY <1>3
<1>5. TypeOK /\ stored \in 0..MaxSaves /\ attempts \in 0..MaxSaves
  BY Types DEF IInv
<1>6. TypeOK'
  <2>1. 1 \in 1..5 /\ "reading" \in {"idle", "reading", "ok", "failed"}
    OBVIOUS
  <2>2. load' \in [state : {"idle", "reading", "ok", "failed"}, next : 1..5,
                   got : [File -> Content], quiet : BOOLEAN,
                   stored : 0..MaxSaves, attempts : 0..MaxSaves]
    BY <1>3, <1>5, <2>1, Records, Shapes
  <2> QED
    BY <1>2, <1>5, <2>2 DEF TypeOK
<1>7. Saving' = Saving
  BY <1>2 DEF Saving
<1>8. SavedIsLoaded'
  BY <1>4 DEF SavedIsLoaded
<1>9. LoadProgress'
  <2>1. load'.stored <= stored'
    BY <1>2, <1>4, <1>5
  <2> QED
    BY <1>2, <1>3, <1>4, <1>7, <2>1, FourFiles DEF LoadProgress
<1> QED
  BY <1>1, <1>6, <1>8, <1>9, DiskUntouched DEF IInv

LEMMA ReadFileKeepsIInv ==
  ASSUME IInv, ReadFile PROVE IInv'
<1> DEFINE f == LoadOrder[load.next]
<1>1. /\ UNCHANGED <<diskVars, historyVars>>
      /\ load.state = "reading" /\ load.next \in 1..4
      /\ load' = IF files[f].of = 0
                   THEN [load EXCEPT !.state = "failed", !.got = Nothing]
                   ELSE [load EXCEPT !.got[f] = files[f], !.next = @ + 1]
  BY FourFiles, Types DEF ReadFile, IInv
<1>2. /\ files' = files /\ save' = save /\ attempts' = attempts
      /\ stored' = stored /\ stopped' = stopped
  BY <1>1 DEF diskVars, historyVars
<1>3. TypeOK /\ Numbered /\ Outcome /\ LoadProgress /\ SavedIsLoaded
  BY DEF IInv
<1>4. f \in File
  BY <1>1, FourFiles
<1>5. Saving' = Saving
  BY <1>2 DEF Saving
<1> HIDE DEF f
<1>6. CASE files[f].of = 0
  <2>1. load' = [state |-> "failed", next |-> load.next, got |-> Nothing,
                 quiet |-> load.quiet, stored |-> load.stored, attempts |-> load.attempts]
    BY <1>1, <1>3, <1>6 DEF TypeOK
  <2>2. TypeOK'
    <3>1. "failed" \in {"idle", "reading", "ok", "failed"}
      OBVIOUS
    <3>2. load' \in [state : {"idle", "reading", "ok", "failed"}, next : 1..5,
                     got : [File -> Content], quiet : BOOLEAN,
                     stored : 0..MaxSaves, attempts : 0..MaxSaves]
      BY <1>3, <2>1, <3>1, Records, Shapes, Types
    <3> QED
      BY <1>2, <1>3, <3>2 DEF TypeOK
  <2>3. /\ load'.state = "failed" /\ load'.quiet = load.quiet
        /\ load'.stored = load.stored /\ load'.attempts = load.attempts
    BY <2>1
  <2>4. LoadProgress'
    BY <1>2, <1>3, <1>5, <2>3 DEF LoadProgress
  <2>5. SavedIsLoaded'
    <3> SUFFICES ASSUME load.quiet, load.stored = load.attempts, load.stored # 0
        PROVE FALSE
      BY <2>3 DEF SavedIsLoaded
    <3>1. stored = attempts /\ stored # 0
      BY <1>3 DEF LoadProgress
    <3>2. files[f] = Whole(stored) /\ stored \in 0..MaxSaves
      BY <1>3, <1>4, <3>1, Types DEF Outcome
    <3> QED
      BY <1>6, <3>1, <3>2, Shapes
  <2> QED
    BY <1>1, <2>2, <2>4, <2>5, DiskUntouched DEF IInv
<1>7. CASE files[f].of # 0
  <2>1. load' = [state |-> "reading", next |-> load.next + 1,
                 got |-> [load.got EXCEPT ![f] = files[f]],
                 quiet |-> load.quiet, stored |-> load.stored, attempts |-> load.attempts]
    BY <1>1, <1>3, <1>7 DEF TypeOK
  <2>2. /\ load'.got \in [File -> Content] /\ load'.got[f] = files[f]
        /\ \A g \in File : g # f => load'.got[g] = load.got[g]
    BY <1>3, <1>4, <2>1, Types DEF TypeOK
  <2>3. TypeOK'
    <3>1. load.next + 1 \in 1..5 /\ "reading" \in {"idle", "reading", "ok", "failed"}
      BY <1>1
    <3>2. load'.got = [load.got EXCEPT ![f] = files[f]]
      BY <2>1
    <3>3. load' \in [state : {"idle", "reading", "ok", "failed"}, next : 1..5,
                     got : [File -> Content], quiet : BOOLEAN,
                     stored : 0..MaxSaves, attempts : 0..MaxSaves]
      BY <1>3, <2>1, <2>2, <3>1, <3>2, Records, Types
    <3> QED
      BY <1>2, <1>3, <3>3 DEF TypeOK
  <2>4. /\ load'.state = "reading" /\ load'.quiet = load.quiet /\ load'.next = load.next + 1
        /\ load'.stored = load.stored /\ load'.attempts = load.attempts
    BY <2>1
  <2>5. SavedIsLoaded'
    BY <2>4 DEF SavedIsLoaded
  <2>6. \A i \in 1..4 : i < load'.next =>
          /\ load'.got[LoadOrder[i]].of # 0
          /\ load.stored <= load'.got[LoadOrder[i]].of
          /\ load.quiet => load'.got[LoadOrder[i]] = files[LoadOrder[i]]
    <3> SUFFICES ASSUME NEW i \in 1..4, i < load'.next
        PROVE  /\ load'.got[LoadOrder[i]].of # 0
               /\ load.stored <= load'.got[LoadOrder[i]].of
               /\ load.quiet => load'.got[LoadOrder[i]] = files[LoadOrder[i]]
      OBVIOUS
    <3>1. CASE i = load.next
      <4>1. stored <= files[f].of /\ load.stored <= stored
        BY <1>3, <1>4 DEF Numbered, LoadProgress
      <4>2. stored \in 0..MaxSaves /\ load.stored \in 0..MaxSaves /\ files[f].of \in 0..MaxSaves
        BY <1>3, <1>4, Types
      <4>3. load.stored <= files[f].of
        BY <4>1, <4>2
      <4> QED
        BY <1>7, <2>2, <3>1, <4>3 DEF f
    <3>2. CASE i # load.next
      <4>1. i < load.next
        BY <1>1, <2>4, <3>2
      <4>2. LoadOrder[i] # f /\ LoadOrder[i] \in File
        BY <1>1, <3>2, FourFiles DEF f
      <4>3. /\ load.got[LoadOrder[i]].of # 0
            /\ load.stored <= load.got[LoadOrder[i]].of
            /\ load.quiet => load.got[LoadOrder[i]] = files[LoadOrder[i]]
        BY <1>1, <1>3, <4>1, FourFiles DEF LoadProgress
      <4> QED
        BY <2>2, <4>2, <4>3
    <3> QED
      BY <3>1, <3>2
  <2>7. LoadProgress'
    BY <1>2, <1>3, <1>5, <2>4, <2>6, FourFiles DEF LoadProgress
  <2> QED
    BY <1>1, <2>3, <2>5, <2>7, DiskUntouched DEF IInv
<1> QED
  BY <1>6, <1>7

LEMMA EndLoadKeepsIInv ==
  ASSUME IInv, EndLoad PROVE IInv'
<1>1. /\ UNCHANGED <<diskVars, historyVars>>
      /\ load.state = "reading" /\ load.next = 5
  BY FourFiles, Types DEF EndLoad, IInv
<1>2. /\ files' = files /\ save' = save /\ attempts' = attempts
      /\ stored' = stored /\ stopped' = stopped
  BY <1>1 DEF diskVars, historyVars
<1>3. TypeOK /\ Outcome /\ LoadProgress /\ SavedIsLoaded
  BY DEF IInv
<1>4. PICK r \in NewCredentials(load.got) :
        load' = [load EXCEPT !.state = r, !.got = IF r = "ok" THEN @ ELSE Nothing]
  BY DEF EndLoad
<1>5. /\ r \in {"ok", "failed"}
      /\ r = "ok" => Acceptable(load.got)
      /\ r = "failed" => \/ ~Acceptable(load.got)
                         \/ "some" \in {load.got["client.crt"].part, load.got["ca.crt"].part}
  BY <1>4 DEF NewCredentials
<1> DEFINE g == IF r = "ok" THEN load.got ELSE Nothing
<1>6. load' = [state |-> r, next |-> load.next, got |-> g, quiet |-> load.quiet,
               stored |-> load.stored, attempts |-> load.attempts]
  BY <1>3, <1>4 DEF TypeOK
<1>7. g \in [File -> Content] /\ (r = "ok" => g = load.got)
  BY <1>3, Shapes, Types
<1> HIDE DEF g
<1>8. Saving' = Saving
  BY <1>2 DEF Saving
<1>9. /\ load'.state = r /\ load'.quiet = load.quiet /\ load'.got = g
      /\ load'.stored = load.stored /\ load'.attempts = load.attempts
  BY <1>6
<1>10. \A i \in 1..4 : /\ load.got[LoadOrder[i]].of # 0
                       /\ load.stored <= load.got[LoadOrder[i]].of
                       /\ load.quiet => load.got[LoadOrder[i]] = files[LoadOrder[i]]
  BY <1>1, <1>3, FourFiles DEF LoadProgress
<1>11. TypeOK'
  <2>1. r \in {"idle", "reading", "ok", "failed"}
    BY <1>5
  <2>2. load' \in [state : {"idle", "reading", "ok", "failed"}, next : 1..5,
                   got : [File -> Content], quiet : BOOLEAN,
                   stored : 0..MaxSaves, attempts : 0..MaxSaves]
    BY <1>3, <1>6, <1>7, <2>1, Records, Types
  <2> QED
    BY <1>2, <1>3, <2>2 DEF TypeOK
<1>12. LoadProgress'
  <2>1. load'.state = "ok" => Acceptable(load'.got)
    BY <1>5, <1>7, <1>9
  <2>2. load'.state # "reading"
    BY <1>5, <1>9
  <2>3. /\ load'.stored <= stored'
        /\ load'.quiet => ~Saving' /\ load'.stored = stored' /\ load'.attempts = attempts'
    BY <1>2, <1>3, <1>8, <1>9 DEF LoadProgress
  <2>4. load'.state = "ok" =>
          \A i \in 1..4 : /\ load'.got[LoadOrder[i]].of # 0
                          /\ load'.stored <= load'.got[LoadOrder[i]].of
                          /\ load'.quiet => load'.got[LoadOrder[i]] = files'[LoadOrder[i]]
    BY <1>2, <1>7, <1>9, <1>10
  <2> QED
    BY <2>1, <2>2, <2>3, <2>4, FourFiles DEF LoadProgress
<1>13. SavedIsLoaded'
  <2> SUFFICES ASSUME load.quiet, load.stored = load.attempts, load.stored # 0
      PROVE  r = "ok" /\ g = [f \in File |-> Whole(load.stored)]
    BY <1>9 DEF SavedIsLoaded
  <2>1. stored = attempts /\ stored # 0 /\ load.stored = stored /\ stored \in 0..MaxSaves
    BY <1>3, Types DEF LoadProgress
  <2>2. \A f \in File : files[f] = Whole(stored)
    BY <1>3, <2>1 DEF Outcome
  <2>3. \A f \in File : load.got[f] = Whole(stored)
    BY <1>10, <2>2, FourFiles
  <2>4. load.got = [f \in File |-> Whole(load.stored)]
    BY <1>3, <2>1, <2>3, Types
  <2>5. "client.key" \in File /\ "client.crt" \in File /\ "ca.crt" \in File
    BY FourFiles DEF SaveOrder
  <2>6. /\ load.got["client.key"].part = "all" /\ load.got["client.crt"].part = "all"
        /\ load.got["ca.crt"].part = "all"
        /\ load.got["client.crt"].of = load.got["client.key"].of
    BY <2>1, <2>3, <2>5, Shapes
  <2>7. Acceptable(load.got) /\ "some" \notin {load.got["client.crt"].part, load.got["ca.crt"].part}
    BY <2>6 DEF Acceptable
  <2> QED
    BY <1>5, <1>7, <2>4, <2>7
<1> QED
  BY <1>1, <1>11, <1>12, <1>13, DiskUntouched DEF IInv

LEMMA NextKeepsIInv == IInv /\ [Next]_vars => IInv'
<1> SUFFICES ASSUME IInv, [Next]_vars PROVE IInv'
  OBVIOUS
<1>1. CASE UNCHANGED vars
  <2>1. UNCHANGED <<diskVars, historyVars>> /\ load' = load /\ UNCHANGED <<files, save, attempts, stored, stopped>>
    BY <1>1 DEF vars, diskVars, historyVars
  <2>2. TypeOK' /\ LoadProgress' /\ SavedIsLoaded'
    BY <2>1 DEF IInv, TypeOK, LoadProgress, SavedIsLoaded, Saving
  <2> QED
    BY <2>1, <2>2, DiskUntouched DEF IInv
<1> QED
  BY <1>1, StartSaveKeepsIInv, OpenKeepsIInv, WritePartKeepsIInv, WriteKeepsIInv,
     ReturnKeepsIInv, StopKeepsIInv, StartLoadKeepsIInv, ReadFileKeepsIInv,
     EndLoadKeepsIInv DEF Next
-----------------------------------------------------------------------------
\* Every state of every run satisfies the inductive invariant.
THEOREM Invariance == Spec => []IInv
  BY InitIInv, NextKeepsIInv, PTL DEF Spec

\* The state of the store keeps its type.
THEOREM TypeCorrect == Spec => []TypeOK
<1>1. IInv => TypeOK
  BY DEF IInv
<1> QED
  BY <1>1, Invariance, PTL

\* What Save has stored and nothing has touched since is what Load returns.
THEOREM StoredIsLoaded == Spec => []SavedIsLoaded
<1>1. IInv => SavedIsLoaded
  BY DEF IInv
<1> QED
  BY <1>1, Invariance, PTL

\* A Load never gives a certificate older than the last stored one, nor, by
\* itself, an authority or a name newer than the certificate.
THEOREM RotationMovesForward == Spec => []NeverRollsBack
<1>1. IInv => NeverRollsBack
  <2> SUFFICES ASSUME IInv, load.state = "ok" PROVE NeverRollsBack
    BY DEF NeverRollsBack
  <2>1. LoadOrder[1] = "client.crt" /\ LoadOrder[3] = "ca.crt" /\ LoadOrder[4] = "server_name"
    BY DEF LoadOrder
  <2>2. SaveOrder[2] = "client.crt" /\ SaveOrder[3] = "ca.crt" /\ SaveOrder[4] = "server_name"
    BY DEF SaveOrder
  <2>3. \A i \in 1..4 : /\ load.stored <= load.got[LoadOrder[i]].of
                        /\ load.quiet => load.got[LoadOrder[i]] = files[LoadOrder[i]]
    BY FourFiles DEF IInv, LoadProgress
  <2>4. load.stored <= load.got["client.crt"].of
    BY <2>1, <2>3
  <2>5. load.quiet => /\ load.got["client.crt"] = files["client.crt"]
                      /\ load.got["ca.crt"] = files["ca.crt"]
                      /\ load.got["server_name"] = files["server_name"]
    BY <2>1, <2>3
  <2>6. /\ files["ca.crt"].of <= files["client.crt"].of
        /\ files["server_name"].of <= files["ca.crt"].of
    <3>1. Layered
      BY DEF IInv
    <3>2. \A i, j \in 1..4 : i < j => files[SaveOrder[j]].of <= files[SaveOrder[i]].of
      BY <3>1, FourFiles DEF Layered
    <3>3. files[SaveOrder[3]].of <= files[SaveOrder[2]].of /\ files[SaveOrder[4]].of <= files[SaveOrder[3]].of
      BY <3>2
    <3> QED
      BY <2>2, <3>3
  <2> QED
    BY <2>4, <2>5, <2>6 DEF NeverRollsBack
<1> QED
  BY <1>1, Invariance, PTL

\* After one Save, complete or not, a Load that succeeds has the first three
\* files whole.
THEOREM FirstSaveIsWhole == Spec => []FirstSaveWhole
<1>1. IInv => FirstSaveWhole
  <2> SUFFICES ASSUME IInv, load.quiet, load.attempts = 1, load.state = "ok",
                      NEW f \in File \ {"server_name"}
               PROVE  load.got[f] = Whole(1)
    BY DEF FirstSaveWhole
  <2>1. PICK i \in 1..4 : SaveOrder[i] = f
    BY FourFiles
  <2>2. SaveOrder[4] = "server_name"
    BY DEF SaveOrder
  <2>3. i < 4
    BY <2>1, <2>2
  <2>4. attempts = 1
    BY DEF IInv, LoadProgress
  <2>5. \A h \in File : load.got[h] = files[h] /\ load.got[h].of # 0
    BY FourFiles DEF IInv, LoadProgress
  <2>6. \A h \in File : files[h].of = 1
    <3> SUFFICES ASSUME NEW h \in File PROVE files[h].of = 1
      OBVIOUS
    <3>1. files[h].of \in 0..MaxSaves /\ files[h].of # 0
      BY <2>5, Types DEF IInv
    <3>2. files[h].of <= 1
      BY <2>4 DEF IInv, Numbered
    <3> QED
      BY <3>1, <3>2
  <2>7. "server_name" \in File
    BY <2>2, FourFiles
  <2>8. files[f].of = 1 /\ files["server_name"].of = 1
    BY <2>6, <2>7
  <2>9. Layered
    BY DEF IInv
  <2>10. files[f].part = "all"
    BY <2>1, <2>2, <2>3, <2>8, <2>9, FourFiles DEF Layered
  <2>11. files[f] = [of |-> 1, part |-> "all"]
    BY <2>8, <2>10, Types DEF IInv
  <2> QED
    BY <2>5, <2>11 DEF Whole
<1> QED
  BY <1>1, Invariance, PTL

\* As long as no Save has stopped, Exists between calls means a complete set of
\* files of one Save.
THEOREM ExistsMeansWhole == Spec => []ExistsReliable
<1>1. IInv => ExistsReliable
  <2> SUFFICES ASSUME IInv, ~stopped, ~Saving, Exists
               PROVE  \E n \in 1..MaxSaves : files = [f \in File |-> Whole(n)]
    BY DEF ExistsReliable
  <2>1. stored = attempts /\ stored \in 0..MaxSaves
    BY Types DEF IInv, Outcome
  <2>2. "client.crt" \in File
    BY FourFiles DEF LoadOrder
  <2>3. stored # 0
    <3>1. files["client.crt"].of <= attempts /\ files["client.crt"].of # 0
      BY <2>2 DEF IInv, Numbered, Exists
    <3>2. files["client.crt"].of \in 0..MaxSaves
      BY <2>2, Types DEF IInv
    <3> QED
      BY <2>1, <3>1, <3>2
  <2>4. \A f \in File : files[f] = Whole(stored)
    BY <2>1, <2>3 DEF IInv, Outcome
  <2>5. files = [f \in File |-> Whole(stored)]
    BY <2>4 DEF IInv, TypeOK
  <2>6. stored \in 1..MaxSaves
    BY <2>1, <2>3
  <2> QED
    BY <2>5, <2>6
<1> QED
  BY <1>1, Invariance, PTL
=============================================================================
