--------------------------- MODULE LncLog_proofs ---------------------------
(***************************************************************************)
(* What holds of the day logs for every number of files to keep and every  *)
(* set of faults.                                                          *)
(***************************************************************************)
EXTENDS LncLog, FiniteSetTheorems, TLAPS

\* The card never holds too many day logs, and has room for the file that is
\* about to be opened.
RoomInv ==
    Without({"list", "unlink"}) =>
        /\ Cardinality(files) <= Keep
        /\ pc = "append" /\ fname \notin files => Cardinality(files) < Keep

\* As long as the clock never went back, names are opened in their order, and
\* what is not on the card any more has Keep later days, or one less while the
\* Monitor task is about to log a new day.
WeekInv ==
    trouble \subseteq {"card"} =>
        /\ files \subseteq used
        /\ \A u \in used : u <= today
        /\ pc \in {"evict", "append"} => fname <= today /\ \A u \in used : u <= fname
        /\ \A d \in used \ files :
              \/ Cardinality(Later(d)) >= Keep
              \/ /\ pc = "append" /\ fname \notin used
                 /\ Cardinality(Later(d)) >= Keep - 1

\* Whatever the clock does: what is not on the card any more has Keep - 1 later
\* days.
ClockInv ==
    Without({"list"}) =>
        /\ files \subseteq used
        /\ \A d \in used \ files : Cardinality(Later(d)) >= Keep - 1

Inv == TypeOK /\ RoomInv /\ WeekInv /\ ClockInv

----------------------------------------------------------------------------
\* Sets of days are finite and have a size.
LEMMA DaysFinite ==
    ASSUME NEW S \in SUBSET Days
    PROVE  IsFiniteSet(S) /\ Cardinality(S) \in Nat
<1>1. IsFiniteSet(Days)
  BY KeepAssumption, FS_Interval DEF Days
<1> QED
  BY <1>1, FS_Subset, FS_CardinalityType

\* One day more or less changes the size by one.
LEMMA AddDay ==
    ASSUME NEW S \in SUBSET Days, NEW x, x \notin S
    PROVE  Cardinality(S \cup {x}) = Cardinality(S) + 1
BY DaysFinite, FS_AddElement

\* A file less.
LEMMA RemoveDay ==
    ASSUME NEW S \in SUBSET Days, NEW x \in S
    PROVE  Cardinality(S \ {x}) = Cardinality(S) - 1
BY DaysFinite, FS_RemoveElement

\* More days do not count less.
LEMMA MoreDays ==
    ASSUME NEW S \in SUBSET Days, NEW T \in SUBSET S
    PROVE  Cardinality(T) <= Cardinality(S)
BY DaysFinite, FS_Subset

\* With at most Keep files, the listing is complete.
LEMMA CompleteListing ==
    ASSUME TypeOK, Cardinality(files) <= Keep, NEW L \in Listings
    PROVE  L = files
<1>1. Cardinality(files) \in Nat
  BY DaysFinite DEF TypeOK
<1>2. Cardinality(files) <= Keep + 1
  BY <1>1, KeepAssumption
<1> QED
  BY <1>2 DEF Listings

\* A fault that befalls a step stays in the history.
LEMMA FaultsStay ==
    ASSUME NEW f, Befalls(f)
    PROVE  /\ f \in trouble'
           /\ f # "card" => ~(trouble' \subseteq {"card"})
           /\ \A fs : Without(fs)' => Without(fs)
           /\ \A fs : f \in fs => ~Without(fs)'
BY DEF Befalls, Without

----------------------------------------------------------------------------
\* The card is empty at the start.
LEMMA InitInv == Init => Inv
<1> SUFFICES ASSUME Init PROVE Inv
  OBVIOUS
<1>1. TypeOK
  <2>1. Epoch \in Days
    BY KeepAssumption DEF Epoch, Days
  <2> QED
    BY <2>1 DEF Init, TypeOK
<1>2. Cardinality(files) = 0
  BY FS_EmptySet DEF Init
<1>3. RoomInv
  BY <1>2, KeepAssumption DEF RoomInv, Init
<1>4. WeekInv
  BY DEF WeekInv, Init
<1>5. ClockInv
  BY DEF ClockInv, Init
<1> QED
  BY <1>1, <1>3, <1>4, <1>5 DEF Inv

\* Types are kept.
LEMMA TypeStep == TypeOK /\ [Next]_vars => TypeOK'
<1> SUFFICES ASSUME TypeOK, [Next]_vars PROVE TypeOK'
  OBVIOUS
<1>0. Epoch \in Days
  BY KeepAssumption DEF Epoch, Days
<1>f. \A f : Befalls(f) => trouble' \in SUBSET AllFaults
  BY FaultsAssumption DEF Befalls, May, TypeOK
<1>1. CASE Mount
  BY <1>1, <1>f DEF Mount, TypeOK
<1>2. CASE Name
  BY <1>2 DEF Name, TypeOK
<1>3. CASE Evict
  <2>1. trouble' \in SUBSET AllFaults
    BY <1>3, <1>f DEF Evict, TypeOK
  <2>2. files' \in SUBSET Days
    BY <1>3 DEF Evict, EvictListed, TypeOK
  <2> QED
    BY <1>3, <2>1, <2>2 DEF Evict, TypeOK
<1>4. CASE Append
  <2>1. trouble' \in SUBSET AllFaults
    BY <1>4, <1>f DEF Append, TypeOK
  <2>2. files' \in SUBSET Days /\ used' \in SUBSET Days
    BY <1>4 DEF Append, Made, TypeOK
  <2> QED
    BY <1>4, <2>1, <2>2 DEF Append, TypeOK
<1>5. ASSUME NEW d \in Days, Show(d) PROVE TypeOK'
  <2>1. trouble' \in SUBSET AllFaults
    BY <1>5, <1>f DEF Show, TypeOK
  <2> QED
    BY <1>5, <2>1 DEF Show, TypeOK
<1>6. CASE Midnight
  <2>1. today + 1 \in Days
    BY <1>6, KeepAssumption DEF Midnight, TypeOK, Days
  <2> QED
    BY <1>5, <1>6, <2>1 DEF Midnight
<1>7. CASE SetClock
  BY <1>5, <1>7 DEF SetClock
<1>8. CASE Reset
  <2>1. files' \in SUBSET Days /\ used' \in SUBSET Days
    BY <1>8 DEF Reset, Made, TypeOK
  <2> QED
    BY <1>8, <1>0, <1>f, <2>1 DEF Reset, TypeOK
<1>9. CASE UNCHANGED vars
  BY <1>9 DEF vars, TypeOK
<1> QED
  BY <1>1, <1>2, <1>3, <1>4, <1>6, <1>7, <1>8, <1>9 DEF Next

\* What is evicted makes the room that is needed.
LEMMA RoomStep == TypeOK /\ RoomInv /\ [Next]_vars => RoomInv'
<1> SUFFICES ASSUME TypeOK, RoomInv, [Next]_vars, Without({"list", "unlink"})'
             PROVE  /\ Cardinality(files') <= Keep
                    /\ pc' = "append" /\ fname' \notin files' => Cardinality(files') < Keep
  BY DEF RoomInv
<1>0. Without({"list", "unlink"})
  <2>1. (\E f : Befalls(f)) \/ UNCHANGED trouble
    BY DEF Next, vars, Mount, Name, Evict, Append, Midnight, SetClock, Show, Reset
  <2> QED
    BY <2>1, FaultsStay DEF Without
<1>a. /\ Cardinality(files) <= Keep
      /\ pc = "append" /\ fname \notin files => Cardinality(files) < Keep
  BY <1>0 DEF RoomInv
<1>b. Cardinality(files) \in Nat /\ Keep \in Nat
  BY DaysFinite, KeepAssumption DEF TypeOK
<1>1. CASE Evict
  <2>1. ~Befalls("list") /\ ~Befalls("unlink")
    BY FaultsStay
  <2>2. PICK L \in Listings : \/ ~Full(L) /\ UNCHANGED files
                              \/ Full(L) /\ EvictListed(L)
    BY <1>1, <2>1 DEF Evict
  <2>3. L = files
    BY <1>a, CompleteListing
  <2>4. CASE ~Full(L) /\ UNCHANGED files
    BY <1>1, <1>a, <1>b, <2>3, <2>4 DEF Full, Evict
  <2>5. CASE Full(L) /\ EvictListed(L)
    <3>1. PICK d \in files : files' = files \ {d}
      BY <2>3, <2>5 DEF EvictListed
    <3>2. Cardinality(files') = Cardinality(files) - 1
      BY <3>1, RemoveDay DEF TypeOK
    <3> QED
      BY <1>a, <1>b, <3>2
  <2> QED
    BY <2>2, <2>4, <2>5
<1>2. CASE pc = "append" /\ pc' # "append" /\ (UNCHANGED files \/ Made)
  <2>1. files' = files \/ files' = files \cup {fname}
    BY <1>2 DEF Made
  <2>2. fname \notin files => Cardinality(files \cup {fname}) = Cardinality(files) + 1
    BY AddDay DEF TypeOK
  <2>3. fname \in files => files \cup {fname} = files
    OBVIOUS
  <2>4. pc = "append" /\ pc' # "append"
    BY <1>2
  <2>5. CASE fname \in files
    BY <1>a, <2>1, <2>3, <2>4, <2>5
  <2>6. CASE fname \notin files
    <3>1. Cardinality(files) < Keep
      BY <1>a, <2>4, <2>6
    <3>2. Cardinality(files') \in {Cardinality(files), Cardinality(files) + 1}
      BY <2>1, <2>2, <2>6
    <3>3. Cardinality(files') <= Keep
      BY <1>b, <3>1, <3>2
    <3> QED
      BY <2>4, <3>3
  <2> QED
    BY <2>5, <2>6
<1>3. CASE Append
  BY <1>2, <1>3 DEF Append
<1>4. CASE Reset
  <2>1. CASE UNCHANGED files
    BY <1>4, <1>a, <2>1 DEF Reset
  <2>2. CASE pc = "append" /\ Made
    BY <1>2, <1>4, <2>2 DEF Reset
  <2> QED
    BY <1>4, <2>1, <2>2 DEF Reset
<1>5. CASE Mount \/ Name \/ Midnight \/ SetClock \/ UNCHANGED vars
  BY <1>5, <1>a DEF Mount, Name, Midnight, SetClock, Show, vars
<1> QED
  BY <1>1, <1>3, <1>4, <1>5 DEF Next

\* The file evicted is the oldest, for a day later than all others.
LEMMA WeekStep == TypeOK /\ RoomInv /\ WeekInv /\ [Next]_vars => WeekInv'
<1> SUFFICES ASSUME TypeOK, RoomInv, WeekInv, [Next]_vars, (trouble \subseteq {"card"})'
             PROVE  /\ files' \subseteq used'
                    /\ \A u \in used' : u <= today'
                    /\ pc' \in {"evict", "append"} => fname' <= today' /\ \A u \in used' : u <= fname'
                    /\ \A d \in used' \ files' :
                          \/ Cardinality(Later(d)') >= Keep
                          \/ /\ pc' = "append" /\ fname' \notin used'
                             /\ Cardinality(Later(d)') >= Keep - 1
  BY DEF WeekInv
<1>n. Days \subseteq Nat /\ Keep \in Nat \ {0}
  BY KeepAssumption DEF Days
<1>f. \A f \in {"list", "unlink", "append", "reset", "clock"} : ~Befalls(f)
  BY FaultsStay
<1>0. trouble \subseteq {"card"}
  <2>1. (\E f : Befalls(f)) \/ UNCHANGED trouble
    BY DEF Next, vars, Mount, Name, Evict, Append, Midnight, SetClock, Show, Reset
  <2> QED
    BY <2>1 DEF Befalls
<1>a. /\ files \subseteq used
      /\ \A u \in used : u <= today
      /\ pc \in {"evict", "append"} => fname <= today /\ \A u \in used : u <= fname
      /\ \A d \in used \ files :
            \/ Cardinality(Later(d)) >= Keep
            \/ /\ pc = "append" /\ fname \notin used
               /\ Cardinality(Later(d)) >= Keep - 1
  BY <1>0 DEF WeekInv
<1>b. \A d : Later(d) \in SUBSET Days /\ Cardinality(Later(d)) \in Nat
  BY DaysFinite DEF Later, TypeOK
<1>1. CASE Mount
  BY <1>1, <1>a DEF Mount, Later
<1>2. CASE Name
  BY <1>2, <1>a, <1>n DEF Name, Later, TypeOK
<1>3. CASE Evict
  <2>0. /\ pc = "evict" /\ pc' = "append"
        /\ UNCHANGED <<today, fname, used>>
        /\ \A d : Later(d)' = Later(d)
    BY <1>3 DEF Evict, Later
  <2>1. PICK L \in Listings : \/ ~Full(L) /\ UNCHANGED files
                              \/ Full(L) /\ EvictListed(L)
    BY <1>3, <1>f DEF Evict
  <2>2. L = files
    <3>1. Cardinality(files) <= Keep
      BY <1>0 DEF RoomInv, Without
    <3> QED
      BY <3>1, CompleteListing
  <2>3. CASE UNCHANGED files
    BY <1>a, <2>0, <2>3
  <2>4. CASE Full(L) /\ EvictListed(L)
    <3>1. PICK d \in files : (\A e \in files : d <= e) /\ files' = files \ {d}
      BY <2>2, <2>4 DEF EvictListed
    <3>2. fname \notin files /\ Cardinality(files) >= Keep
      BY <2>2, <2>4 DEF Full
    <3>3. fname \notin used
      <4>1. SUFFICES ASSUME fname \in used PROVE FALSE
        OBVIOUS
      <4>2. Cardinality(Later(fname)) >= Keep
        BY <1>a, <2>0, <3>2, <4>1
      <4>3. Later(fname) = {}
        <5>1. \A u \in used : u <= fname /\ u \in Nat /\ fname \in Nat
          BY <1>a, <1>n, <2>0 DEF TypeOK
        <5>2. \A u \in used : ~(u > fname)
          BY <5>1
        <5> QED
          BY <5>2 DEF Later
      <4> QED
        BY <1>n, <4>2, <4>3, FS_EmptySet
    <3>4. Cardinality(Later(d)) >= Keep - 1
      <4>1. files \ {d} \in SUBSET Later(d)
        BY <1>a, <1>n, <3>1 DEF Later, TypeOK
      <4>2. Cardinality(files \ {d}) = Cardinality(files) - 1
        BY RemoveDay DEF TypeOK
      <4>3. Cardinality(files \ {d}) <= Cardinality(Later(d))
        BY <1>b, <4>1, MoreDays
      <4>4. Cardinality(files) \in Nat
        BY DaysFinite DEF TypeOK
      <4> QED
        BY <1>b, <1>n, <3>2, <4>2, <4>3, <4>4
    <3>5. \A e \in used' \ files' : e = d \/ e \in used \ files
      BY <2>0, <3>1
    <3> QED
      BY <1>a, <2>0, <3>1, <3>3, <3>4, <3>5
  <2> QED
    BY <2>1, <2>3, <2>4
<1>4. CASE Append
  <2>0. /\ pc = "append" /\ pc' = "name"
        /\ UNCHANGED <<today, fname>>
        /\ files' = files \cup {fname}
        /\ used' = used \cup {fname}
    BY <1>4, <1>f DEF Append, Made
  <2>1. ASSUME NEW d \in used' \ files' PROVE Cardinality(Later(d)') >= Keep
    <3>1. d \in used \ files /\ d # fname
      BY <2>0, <2>1
    <3>2. d < fname
      BY <1>a, <1>n, <2>0, <3>1 DEF TypeOK
    <3>3. Later(d)' = Later(d) \cup {fname}
      BY <2>0, <3>2 DEF Later
    <3>4. Later(d)' \in SUBSET Days /\ Cardinality(Later(d)') \in Nat
      BY <1>b, <3>3, DaysFinite DEF TypeOK
    <3>5. CASE Cardinality(Later(d)) >= Keep
      <4>1. Cardinality(Later(d)) <= Cardinality(Later(d)')
        BY <3>3, <3>4, MoreDays
      <4> QED
        BY <1>b, <1>n, <3>4, <3>5, <4>1
    <3>6. CASE fname \notin used /\ Cardinality(Later(d)) >= Keep - 1
      <4>1. fname \notin Later(d)
        BY <3>6 DEF Later
      <4>2. Cardinality(Later(d)') = Cardinality(Later(d)) + 1
        BY <1>b, <3>3, <4>1, AddDay
      <4> QED
        BY <1>b, <1>n, <3>6, <4>2
    <3> QED
      BY <1>a, <3>1, <3>5, <3>6
  <2> QED
    BY <1>a, <2>0, <2>1
<1>5. ASSUME NEW d \in Days, Show(d)
      PROVE  /\ \A u \in used : u <= d
             /\ today <= d
             /\ today' = d
             /\ UNCHANGED <<pc, fname, files, used>>
  BY <1>5, <1>f DEF Show
<1>6. ASSUME NEW d \in Days, Show(d)
      PROVE  /\ files' \subseteq used'
             /\ \A u \in used' : u <= today'
             /\ pc' \in {"evict", "append"} => fname' <= today' /\ \A u \in used' : u <= fname'
             /\ \A e \in used' \ files' :
                   \/ Cardinality(Later(e)') >= Keep
                   \/ /\ pc' = "append" /\ fname' \notin used'
                      /\ Cardinality(Later(e)') >= Keep - 1
  <2>1. \A e : Later(e)' = Later(e)
    BY <1>5, <1>6 DEF Later
  <2>2. pc \in {"evict", "append"} => fname <= d
    BY <1>5, <1>6, <1>a, <1>n DEF TypeOK
  <2> QED
    BY <1>5, <1>6, <1>a, <2>1, <2>2
<1>7. CASE Midnight
  <2>1. today + 1 \in Days
    BY <1>7, KeepAssumption DEF Midnight, TypeOK, Days
  <2> QED
    BY <1>6, <1>7, <2>1 DEF Midnight
<1>8. CASE SetClock
  BY <1>6, <1>8 DEF SetClock
<1>9. CASE Reset
  BY <1>9, <1>f DEF Reset
<1>10. CASE UNCHANGED vars
  BY <1>10, <1>a DEF vars, Later
<1> QED
  BY <1>1, <1>2, <1>3, <1>4, <1>7, <1>8, <1>9, <1>10 DEF Next

\* An eviction leaves later files only, and a day never gets fewer later ones.
LEMMA ClockStep == TypeOK /\ ClockInv /\ [Next]_vars => ClockInv'
<1> SUFFICES ASSUME TypeOK, ClockInv, [Next]_vars, Without({"list"})'
             PROVE  /\ files' \subseteq used'
                    /\ \A d \in used' \ files' : Cardinality(Later(d)') >= Keep - 1
  BY DEF ClockInv
<1>0. Without({"list"})
  <2>1. (\E f : Befalls(f)) \/ UNCHANGED trouble
    BY DEF Next, vars, Mount, Name, Evict, Append, Midnight, SetClock, Show, Reset
  <2> QED
    BY <2>1, FaultsStay DEF Without
<1>f. ~Befalls("list")
  BY FaultsStay
<1>a. files \subseteq used /\ \A d \in used \ files : Cardinality(Later(d)) >= Keep - 1
  BY <1>0 DEF ClockInv
<1>n. Days \subseteq Nat /\ Keep \in Nat
  BY KeepAssumption DEF Days
<1>b. \A d : Later(d) \in SUBSET Days /\ Cardinality(Later(d)) \in Nat
  BY DaysFinite DEF Later, TypeOK
<1>1. CASE Evict
  <2>1. PICK L \in Listings : \/ UNCHANGED files
                              \/ Full(L) /\ EvictListed(L)
    BY <1>1, <1>f DEF Evict
  <2>2. used' = used /\ \A d : Later(d)' = Later(d)
    BY <1>1 DEF Evict, Later
  <2>3. CASE UNCHANGED files
    BY <1>a, <2>2, <2>3
  <2>4. CASE Full(L) /\ EvictListed(L)
    <3>1. PICK d \in L : (\A e \in L : d <= e) /\ files' = files \ {d}
      BY <2>4 DEF EvictListed
    <3>2. L \in SUBSET Days /\ L \subseteq used /\ Cardinality(L) >= Keep
      BY <1>a, <2>4 DEF Listings, Full, TypeOK
    <3>3. L \ {d} \in SUBSET Later(d)
      BY <1>n, <3>1, <3>2 DEF Later
    <3>4. Cardinality(L \ {d}) = Cardinality(L) - 1 /\ Cardinality(L) \in Nat
      BY <3>1, <3>2, RemoveDay, DaysFinite
    <3>5. Cardinality(L \ {d}) <= Cardinality(Later(d))
      BY <1>b, <3>3, MoreDays
    <3>6. Cardinality(Later(d)) >= Keep - 1
      BY <1>b, <1>n, <3>2, <3>4, <3>5
    <3> QED
      BY <1>a, <2>2, <3>1, <3>6
  <2> QED
    BY <2>1, <2>3, <2>4
<1>2. CASE Made
  <2>1. files' = files \cup {fname} /\ used' = used \cup {fname}
    BY <1>2 DEF Made
  <2>2. ASSUME NEW d \in used' \ files' PROVE Cardinality(Later(d)') >= Keep - 1
    <3>1. d \in used \ files
      BY <2>1, <2>2
    <3>2. Later(d)' \in SUBSET Days
      BY <2>1 DEF Later, TypeOK
    <3>3. Later(d) \in SUBSET Later(d)'
      BY <2>1 DEF Later
    <3>4. Cardinality(Later(d)) <= Cardinality(Later(d)') /\ Cardinality(Later(d)') \in Nat
      BY <3>2, <3>3, MoreDays, DaysFinite
    <3> QED
      BY <1>a, <1>b, <1>n, <3>1, <3>4
  <2> QED
    BY <1>a, <2>1, <2>2
<1>3. CASE UNCHANGED <<files, used>>
  BY <1>3, <1>a DEF Later
<1>4. Evict \/ Made \/ UNCHANGED <<files, used>>
  BY DEF Next, vars, Mount, Name, Append, Midnight, SetClock, Show, Reset
<1> QED
  BY <1>1, <1>2, <1>3, <1>4

----------------------------------------------------------------------------
\* The conjuncts are inductive together.
LEMMA Invariance == Spec => []Inv
<1>1. Inv /\ [Next]_vars => Inv'
  BY TypeStep, RoomStep, WeekStep, ClockStep DEF Inv
<1> QED
  BY InitInv, <1>1, PTL DEF Spec

\* Types of the state, in all behaviours.
THEOREM TypeInvariant == Spec => []TypeOK
<1>1. Inv => TypeOK
  BY DEF Inv
<1> QED
  BY Invariance, <1>1, PTL

\* There are never more than Keep day logs unless a listing or an unlink
\* failed, for every clock, reset and other fault.
THEOREM RoomForAll == Spec => []AtMostKeep
<1>1. Inv => AtMostKeep
  BY DEF Inv, RoomInv, AtMostKeep
<1> QED
  BY Invariance, <1>1, PTL

\* With a clock that never goes back and a card that does not fail, the last
\* Keep days whose file was made are on the card.
THEOREM WeekStays == Spec => []WeekKept
<1>1. Inv => WeekKept
  <2> SUFFICES ASSUME Inv, trouble \subseteq {"card"}, pc # "append",
                      NEW d \in used, Cardinality(Later(d)) < Keep
               PROVE  d \in files
    BY DEF WeekKept
  <2>1. Cardinality(Later(d)) \in Nat
    BY DaysFinite DEF Inv, TypeOK, Later
  <2> QED
    BY <2>1, KeepAssumption DEF Inv, WeekInv
<1> QED
  BY Invariance, <1>1, PTL

\* The last Keep - 1 days whose file was made are on the card whatever the
\* clock does, wherever resets fall and whatever unlinks and appends fail,
\* unless a listing failed.
THEOREM ResetsCostADay == Spec => []ResetCostsADay
<1>1. Inv => ResetCostsADay
  <2> SUFFICES ASSUME Inv, Without({"list"}),
                      NEW d \in used, Cardinality(Later(d)) < Keep - 1
               PROVE  d \in files
    BY DEF ResetCostsADay
  <2>1. Cardinality(Later(d)) \in Nat
    BY DaysFinite DEF Inv, TypeOK, Later
  <2> QED
    BY <2>1, KeepAssumption DEF Inv, ClockInv
<1> QED
  BY Invariance, <1>1, PTL

\* The Monitor task never evicts the file it is about to write to, whatever
\* the clock and the card do.
THEOREM OwnFileStays == Spec => NeverEvictsOwnFile
<1>1. TypeOK /\ [Next]_vars => [\A d \in files \ files' : d # fname]_vars
  <2> SUFFICES ASSUME TypeOK, Next, NEW d \in files \ files' PROVE d # fname
    OBVIOUS
  <2>1. Evict
    BY DEF Next, Mount, Name, Append, Made, Midnight, SetClock, Show, Reset
  <2>2. PICK L \in SUBSET files : Full(L) /\ EvictListed(L)
    BY <2>1 DEF Evict, Listings, PartialListings
  <2> QED
    BY <2>2 DEF Full, EvictListed
<1> QED
  BY TypeInvariant, <1>1, PTL DEF Spec, NeverEvictsOwnFile
=============================================================================
