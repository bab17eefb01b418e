--------------------------- MODULE ValkeyScanProofs ---------------------------
(***************************************************************************)
(* What a call of ReadAll promises, for any set of keys, any number of     *)
(* writes and pages.  A key that must not be missed is, at every moment of *)
(* the scan, still to be returned by the server, on the page in hand, or   *)
(* in the slice; when the cursor is 0 and the page is read only the last   *)
(* is left.                                                                *)
(***************************************************************************)
EXTENDS ValkeyScan, TLAPS

\* What the database held when the scan began is not newer than what it holds,
\* and a stable key can be read now.
HistoryInv ==
  /\ \A k \in Key : begun[k] <= written[k]
  /\ \A k \in stable : Readable(k)

\* Where a key that must not be missed is while the scan goes on.
ScanInv ==
  state = "scanning" =>
    /\ ~cursor => unreturned = {}
    /\ \A k \in stable \ unread : k \in unreturned \/ k \in page \/ Returned(k)

\* The inductive invariant.
IInv == TypeOK /\ HistoryInv /\ ScanInv /\ FreshPolicies /\ NothingSkipped

\* What appending does to the entries of a sequence.
LEMMA AppendEntries ==
  ASSUME NEW S, NEW s \in Seq(S), NEW e \in S
  PROVE  /\ Append(s, e) \in Seq(S)
         /\ DOMAIN Append(s, e) = 1..(Len(s) + 1)
         /\ DOMAIN s = 1..Len(s)
         /\ \A i \in 1..Len(s) : Append(s, e)[i] = s[i]
         /\ Append(s, e)[Len(s) + 1] = e
  OBVIOUS

\* Initially there is nothing in the slice and no scan to be honest about.
THEOREM InitIInv == Init => IInv
<1> SUFFICES ASSUME Init PROVE IInv
  OBVIOUS
<1> USE ScanAssumption
<1>1. TypeOK
  <2>1. written \in [Key -> 0..MaxWrites] /\ begun \in [Key -> 0..MaxWrites]
    BY DEF Init
  <2>2. present \subseteq {k \in Key : written[k] > 0}
    BY DEF Init
  <2>3. policies \in Seq(Key \X ((1..MaxWrites) \ Garbage))
    BY DEF Init
  <2>4. /\ state \in {"idle", "scanning", "done", "failed"}
        /\ page \subseteq Key
        /\ pages \in 0..MaxPages
        /\ unreturned \subseteq present
        /\ stable \subseteq present
        /\ unread \subseteq Key
    BY DEF Init
  <2>5. cursor \in BOOLEAN
    BY Zenon DEF Init
  <2> QED
    BY <2>1, <2>2, <2>3, <2>4, <2>5, Zenon DEF TypeOK
<1>2. HistoryInv
  BY DEF Init, HistoryInv
<1>3. ScanInv /\ FreshPolicies /\ NothingSkipped
  BY DEF Init, ScanInv, FreshPolicies, NothingSkipped
<1> QED
  BY <1>1, <1>2, <1>3 DEF IInv

\* The type invariant holds after every step.
LEMMA TypeStep == TypeOK /\ [Next]_vars => TypeOK'
<1> SUFFICES ASSUME TypeOK, [Next]_vars PROVE TypeOK'
  OBVIOUS
<1> USE ScanAssumption
<1>1. CASE Start
  BY <1>1 DEF Start, TypeOK, dbVars, Readable
<1>2. CASE NextPage
  BY <1>2 DEF NextPage, TypeOK, dbVars
<1>3. CASE PageFails
  BY <1>3 DEF PageFails, TypeOK, dbVars
<1>4. CASE End
  BY <1>4 DEF End, TypeOK, dbVars
<1>5. ASSUME NEW k \in Key, Get(k) PROVE TypeOK'
  <2>1. Readable(k) => <<k, written[k]>> \in Key \X ((1..MaxWrites) \ Garbage)
    BY DEF TypeOK, Readable
  <2>2. policies' \in Seq(Key \X ((1..MaxWrites) \ Garbage))
    BY <1>5, <2>1, AppendEntries DEF Get, TypeOK
  <2> QED
    BY <1>5, <2>2 DEF Get, TypeOK, dbVars
<1>6. ASSUME NEW k \in Key, GetFails(k) PROVE TypeOK'
  BY <1>6 DEF GetFails, TypeOK, dbVars
<1>7. ASSUME NEW k \in Key, Write(k) PROVE TypeOK'
  BY <1>7 DEF Write, TypeOK, readerVars
<1>8. ASSUME NEW k \in Key, Expire(k) PROVE TypeOK'
  BY <1>8 DEF Expire, TypeOK, readerVars
<1>9. CASE UNCHANGED vars
  BY <1>9 DEF TypeOK, vars, dbVars, readerVars
<1> QED
  BY <1>1, <1>2, <1>3, <1>4, <1>5, <1>6, <1>7, <1>8, <1>9 DEF Next

\* The history variables stay honest: writes only count up, and whatever makes
\* a key unreadable takes it out of stable.
LEMMA HistoryStep == TypeOK /\ HistoryInv /\ [Next]_vars => HistoryInv'
<1> SUFFICES ASSUME TypeOK, HistoryInv, [Next]_vars PROVE HistoryInv'
  OBVIOUS
<1>1. CASE Start
  BY <1>1 DEF Start, TypeOK, HistoryInv, Readable, dbVars
<1>2. CASE NextPage \/ PageFails \/ End \/ \E k \in Key : Get(k) \/ GetFails(k)
  BY <1>2 DEF NextPage, PageFails, End, Get, GetFails, HistoryInv, Readable, dbVars
<1>3. ASSUME NEW k \in Key, Write(k) PROVE HistoryInv'
  BY <1>3 DEF Write, TypeOK, HistoryInv, Readable
<1>4. ASSUME NEW k \in Key, Expire(k) PROVE HistoryInv'
  BY <1>4 DEF Expire, TypeOK, HistoryInv, Readable
<1>5. CASE UNCHANGED vars
  BY <1>5 DEF HistoryInv, Readable, vars, dbVars
<1> QED
  BY <1>1, <1>2, <1>3, <1>4, <1>5 DEF Next

\* What is in the slice stays in it when an entry is appended.
LEMMA AppendReturns ==
  ASSUME TypeOK, TypeOK', NEW e \in Key \X ((1..MaxWrites) \ Garbage),
         policies' = Append(policies, e)
  PROVE  /\ \A k \in Key : Returned(k) => Returned(k)'
         /\ Returned(e[1])'
<1>1. policies \in Seq(Key \X ((1..MaxWrites) \ Garbage))
  BY DEF TypeOK
<1>2. /\ DOMAIN policies' = 1..(Len(policies) + 1)
      /\ DOMAIN policies = 1..Len(policies)
      /\ \A i \in 1..Len(policies) : policies'[i] = policies[i]
      /\ policies'[Len(policies) + 1] = e
      /\ Len(policies) \in Nat
  BY <1>1, AppendEntries
<1>3. Len(policies) + 1 \in DOMAIN policies' /\ DOMAIN policies \subseteq DOMAIN policies'
  BY <1>2
<1> QED
  BY <1>2, <1>3 DEF Returned

\* No step of the call or of the world loses a key that must not be missed.
LEMMA ScanStep == IInv /\ TypeOK' /\ [Next]_vars => ScanInv' /\ NothingSkipped'
<1> SUFFICES ASSUME IInv, TypeOK', [Next]_vars PROVE ScanInv' /\ NothingSkipped'
  OBVIOUS
<1> USE DEF IInv
<1>1. CASE Start
  BY <1>1 DEF Start, ScanInv, NothingSkipped, Readable, dbVars
<1>2. CASE NextPage
  <2>1. cursor' \/ unreturned' = {}
    BY <1>2 DEF NextPage
  <2>2. \A k \in Key : Returned(k)' <=> Returned(k)
    BY <1>2 DEF NextPage, Returned
  <2>3. \A k \in unreturned : k \in unreturned' \/ k \in page'
    BY <1>2 DEF NextPage
  <2> QED
    BY <1>2, <2>1, <2>2, <2>3 DEF NextPage, ScanInv, NothingSkipped, TypeOK
<1>3. CASE PageFails
  BY <1>3 DEF PageFails, ScanInv, NothingSkipped
<1>4. CASE End
  <2>1. \A k \in stable \ unread : Returned(k)
    BY <1>4 DEF End, ScanInv
  <2> QED
    BY <1>4, <2>1 DEF End, ScanInv, NothingSkipped, Returned
<1>5. ASSUME NEW k \in Key, Get(k) PROVE ScanInv' /\ NothingSkipped'
  <2>1. CASE Readable(k)
    <3>1. <<k, written[k]>> \in Key \X ((1..MaxWrites) \ Garbage)
      BY <2>1, ScanAssumption DEF TypeOK, Readable
    <3>2. /\ \A j \in Key : Returned(j) => Returned(j)'
          /\ Returned(k)'
      BY <1>5, <2>1, <3>1, AppendReturns DEF Get
    <3> QED
      BY <1>5, <3>2 DEF Get, ScanInv, NothingSkipped, TypeOK
  <2>2. CASE ~Readable(k)
    <3>1. k \notin stable
      BY <2>2 DEF HistoryInv
    <3>2. \A j \in Key : Returned(j)' <=> Returned(j)
      BY <1>5, <2>2 DEF Get, Returned
    <3> QED
      BY <1>5, <3>1, <3>2 DEF Get, ScanInv, NothingSkipped, TypeOK
  <2> QED
    BY <2>1, <2>2
<1>6. ASSUME NEW k \in Key, GetFails(k) PROVE ScanInv' /\ NothingSkipped'
  BY <1>6 DEF GetFails, ScanInv, NothingSkipped, Returned
<1>7. ASSUME NEW k \in Key, Write(k) PROVE ScanInv' /\ NothingSkipped'
  <2>1. stable' \subseteq stable
    BY <1>7 DEF Write
  <2> QED
    BY <1>7, <2>1 DEF Write, ScanInv, NothingSkipped, Returned, readerVars
<1>8. ASSUME NEW k \in Key, Expire(k) PROVE ScanInv' /\ NothingSkipped'
  BY <1>8 DEF Expire, ScanInv, NothingSkipped, Returned, readerVars
<1>9. CASE UNCHANGED vars
  BY <1>9 DEF ScanInv, NothingSkipped, Returned, vars, readerVars
<1> QED
  BY <1>1, <1>2, <1>3, <1>4, <1>5, <1>6, <1>7, <1>8, <1>9 DEF Next

\* What is appended is what the key holds at that moment, and the slice starts
\* empty with every call.
LEMMA FreshStep == IInv /\ TypeOK' /\ HistoryInv' /\ [Next]_vars => FreshPolicies'
<1> SUFFICES ASSUME IInv, TypeOK', HistoryInv', [Next]_vars PROVE FreshPolicies'
  OBVIOUS
<1> USE DEF IInv
<1>1. CASE Start \/ PageFails
  BY <1>1 DEF Start, PageFails, FreshPolicies
<1>2. CASE NextPage \/ End \/ \E k \in Key : GetFails(k)
  BY <1>2 DEF NextPage, End, GetFails, FreshPolicies, dbVars
<1>3. ASSUME NEW k \in Key, Get(k) PROVE FreshPolicies'
  <2>1. CASE Readable(k)
    <3>1. <<k, written[k]>> \in Key \X ((1..MaxWrites) \ Garbage)
      BY <2>1, ScanAssumption DEF TypeOK, Readable
    <3>2. begun[k] <= written[k] /\ written[k] <= written[k]
      BY ScanAssumption DEF HistoryInv, TypeOK
    <3>3. policies' = Append(policies, <<k, written[k]>>) /\ begun' = begun /\ written' = written
      BY <1>3, <2>1 DEF Get, dbVars
    <3>4. policies \in Seq(Key \X ((1..MaxWrites) \ Garbage))
      BY DEF TypeOK
    <3>5. /\ DOMAIN policies' = 1..(Len(policies) + 1)
          /\ DOMAIN policies = 1..Len(policies)
          /\ \A i \in 1..Len(policies) : policies'[i] = policies[i]
          /\ policies'[Len(policies) + 1] = <<k, written[k]>>
          /\ Len(policies) \in Nat
      BY <3>1, <3>3, <3>4, AppendEntries
    <3>6. ASSUME NEW i \in 1..Len(policies)
          PROVE  begun[policies'[i][1]] <= policies'[i][2] /\ policies'[i][2] <= written[policies'[i][1]]
      BY <3>5, <3>6 DEF FreshPolicies
    <3>7. begun[policies'[Len(policies) + 1][1]] <= policies'[Len(policies) + 1][2]
          /\ policies'[Len(policies) + 1][2] <= written[policies'[Len(policies) + 1][1]]
      BY <3>2, <3>5
    <3>8. \A i \in DOMAIN policies' : i \in 1..Len(policies) \/ i = Len(policies) + 1
      BY <3>5
    <3> HIDE DEF IInv
    <3> QED
      BY <3>3, <3>6, <3>7, <3>8 DEF FreshPolicies
  <2>2. CASE ~Readable(k)
    BY <1>3, <2>2 DEF Get, FreshPolicies, dbVars
  <2> QED
    BY <2>1, <2>2
<1>4. ASSUME NEW k \in Key, Write(k) PROVE FreshPolicies'
  <2>1. \A j \in Key : written[j] <= written'[j] /\ written[j] \in Nat /\ written'[j] \in Nat
    BY <1>4, ScanAssumption DEF Write, TypeOK
  <2>2. \A i \in DOMAIN policies : policies[i][1] \in Key /\ policies[i][2] \in Nat
    <3> SUFFICES ASSUME NEW i \in DOMAIN policies
                 PROVE  policies[i][1] \in Key /\ policies[i][2] \in Nat
      OBVIOUS
    <3>1. policies[i] \in Key \X ((1..MaxWrites) \ Garbage)
      BY DEF TypeOK
    <3> QED
      BY <3>1, ScanAssumption
  <2> QED
    BY <1>4, <2>1, <2>2 DEF Write, FreshPolicies, readerVars
<1>5. ASSUME NEW k \in Key, Expire(k) PROVE FreshPolicies'
  BY <1>5 DEF Expire, FreshPolicies, readerVars
<1>6. CASE UNCHANGED vars
  BY <1>6 DEF FreshPolicies, vars, dbVars, readerVars
<1> QED
  BY <1>1, <1>2, <1>3, <1>4, <1>5, <1>6 DEF Next

\* The conjunction is inductive.
THEOREM StepIInv == IInv /\ [Next]_vars => IInv'
  BY TypeStep, HistoryStep, ScanStep, FreshStep DEF IInv

\* Every state of a call satisfies the inductive invariant.
THEOREM Inductive == Spec => []IInv
  BY InitIInv, StepIInv, PTL DEF Spec

\* The reader keeps its types: only what parses gets into the slice.
THEOREM TypeCorrect == Spec => []TypeOK
<1>1. IInv => TypeOK
  BY DEF IInv
<1> QED
  BY <1>1, Inductive, PTL

\* ReadAll never answers with something a key held only before the call.
THEOREM AnswersOfThisCall == Spec => []FreshPolicies
<1>1. IInv => FreshPolicies
  BY DEF IInv
<1> QED
  BY <1>1, Inductive, PTL

\* ReadAll without an error misses nothing it could read throughout the call.
THEOREM MissesNothingReadable == Spec => []NothingSkipped
<1>1. IInv => NothingSkipped
  BY DEF IInv
<1> QED
  BY <1>1, Inductive, PTL
=============================================================================
