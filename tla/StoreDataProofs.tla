---------------------------- MODULE StoreDataProofs ----------------------------
(***************************************************************************)
(* Of what MCIndependent checks, for any constants: what is made of the    *)
(* stores' data.  The funnel and the timeline show what the stores counted *)
(* and showed, and the corpus of search terms is scored, estimated and     *)
(* asked about without doing a thing twice or leaving a term behind.       *)
(***************************************************************************)
EXTENDS MCIndependent, FiniteSetTheorems, WellFoundedInduction, TLAPS

\* Of some numbers one is the least, and of those up to another one the greatest.
LEMMA Least ==
    ASSUME NEW S, S \subseteq Nat, S # {} PROVE \E m \in S : \A n \in S : m <= n
  <1>1. PICK m \in S : \A n \in S : ~(<<n, m>> \in OpToRel(<, Nat))
    BY WFMin, NatLessThanWellFounded, Zenon
  <1>2. \A n \in S : ~(n < m)
    BY <1>1, Zenon DEF OpToRel
  <1> QED
    BY <1>2

LEMMA Greatest ==
    ASSUME NEW n \in Nat, NEW S, S \subseteq 1 .. n, S # {}
    PROVE  \E i \in S : \A k \in S : k <= i /\ i >= k
  <1> DEFINE back == {n - k : k \in S}
  <1>1. back \subseteq Nat /\ back # {}
    <2>1. \A k \in S : n - k \in Nat
      OBVIOUS
    <2>2. PICK k \in S : TRUE
      OBVIOUS
    <2>3. n - k \in back
      OBVIOUS
    <2> QED
      BY <2>1, <2>3
  <1> HIDE DEF back
  <1>2. PICK m \in back : \A k \in back : m <= k
    BY <1>1, Least
  <1>3. PICK i \in S : m = n - i
    BY <1>2 DEF back
  <1>4. \A k \in S : n - k \in back
    BY DEF back
  <1> QED
    BY <1>2, <1>3, <1>4

-----------------------------------------------------------------------------
(* The funnel.  What is written of a bucket is the count of one of its     *)
(* lines, and a day that was read whole leaves no bucket out.  A request   *)
(* is registered where none was live, unless two syncs are about to.       *)

ReportLines == [source : STRING, units : Nat, first : BOOLEAN]
Reporting ==
    MaxReportDays \in Nat /\ AppleDays \subseteq Seq(ReportLines) /\ PlayDays \subseteq Seq(ReportLines)

Published == [live : BOOLEAN, days : SUBSET F!Day]
Pulls == [at : {"idle", "list", "register", "find", "read"}, request : Nat, days : SUBSET F!Day,
          got : SUBSET [day : F!Day, at : Nat], full : SUBSET F!Day]

FunnelTypes ==
    /\ \A d \in F!Day : report[d] \in Seq(ReportLines)
    /\ exported \subseteq F!Day /\ whole \subseteq F!Day
    /\ ongoing \in Seq(Published)
    /\ reader \in [FunnelSync -> Pulls]
    /\ together \in BOOLEAN

\* Of a day that is had whole every line is, and what is read has been found.
Sound(pull) ==
    /\ \A d \in pull.full : \A l \in DOMAIN report[d] : [day |-> d, at |-> l] \in pull.got
    /\ pull.at = "find" => pull.request \in DOMAIN ongoing

PullsSound == \A s \in FunnelSync : Sound(reader[s])

Shows(d, b) ==
    /\ traffic[d][b] # 0 => \E l \in F!Counted(d, b) : traffic[d][b] = report[d][l].units
    /\ d \in whole /\ F!Counted(d, b) # {} => traffic[d][b] # 0

AllShown == \A d \in F!Day, b \in F!Bucket : Shows(d, b)

AtRegister == {s \in FunnelSync : reader[s].at = "register"}

OneRequest ==
    \/ together
    \/ /\ \A s, t \in AtRegister : s = t
       /\ AtRegister # {} => F!Live = {}
       /\ \A r, q \in F!Live : r = q

FunnelInv == FunnelTypes /\ PullsSound /\ AllShown /\ OneRequest

-----------------------------------------------------------------------------

LEMMA LastLine ==
    ASSUME NEW n \in Nat, NEW S, S \subseteq 1 .. n, S # {} PROVE F!Max(S) \in S
  BY Greatest DEF F!Max

LEMMA FirstOf ==
    ASSUME NEW S, S \subseteq Nat, S # {} PROVE F!Min(S) \in S
  BY Least DEF F!Min

LEMMA IdlePull ==
    /\ F!Idle \in Pulls /\ F!Idle.at = "idle" /\ F!Idle.full = {} /\ F!Idle.got = {}
    /\ F!Idle.request = 0 /\ F!Idle.days = {}
    /\ Sound(F!Idle)
  BY DEF F!Idle, Pulls, Sound

LEMMA FunnelInit == ASSUME Reporting, F!Init PROVE FunnelInv
  <1>1. \A d \in F!Day : report[d] \in Seq(ReportLines)
    <2>1. report \in [F!Day -> AppleDays] \/ report \in [F!Day -> PlayDays]
      BY DEF F!Init
    <2> QED
      BY <2>1 DEF Reporting
  <1>2. /\ exported = {} /\ whole = {} /\ ongoing = <<>> /\ together = FALSE
        /\ reader = [s \in FunnelSync |-> F!Idle]
        /\ \A d \in F!Day, b \in F!Bucket : traffic[d][b] = 0
    BY DEF F!Init
  <1>3. ongoing \in Seq(Published)
    BY <1>2
  <1>4. together \in BOOLEAN
    BY <1>2, Zenon
  <1>5. reader \in [FunnelSync -> Pulls] /\ \A s \in FunnelSync : reader[s] = F!Idle
    BY <1>2, IdlePull
  <1>6. FunnelTypes
    BY <1>1, <1>2, <1>3, <1>4, <1>5 DEF FunnelTypes
  <1>7. PullsSound
    BY <1>5, IdlePull DEF PullsSound
  <1>8. AllShown
    BY <1>2 DEF AllShown, Shows
  <1>9. F!Live = {} /\ AtRegister = {}
    BY <1>2, <1>5, IdlePull DEF F!Live, AtRegister
  <1>10. OneRequest
    BY <1>9 DEF OneRequest
  <1> QED
    BY <1>6, <1>7, <1>8, <1>10 DEF FunnelInv

\* The rows after some lines are written show counts, and all of a day whose lines they are.
LEMMA RowsShow ==
    ASSUME FunnelTypes, AllShown, NEW lines, NEW days,
           \A d \in days : \A l \in DOMAIN report[d] : [day |-> d, at |-> l] \in lines,
           traffic' = F!Written(lines), whole' = whole \union days,
           report' = report, account' = account
    PROVE  AllShown'
  <1> SUFFICES ASSUME NEW d \in F!Day, NEW b \in F!Bucket PROVE Shows(d, b)'
    BY DEF AllShown, F!Day, F!Bucket
  <1> DEFINE counted == F!Counted(d, b)
             of == {l \in counted : [day |-> d, at |-> l] \in lines}
  <1>1. F!Counted(d, b)' = counted
    BY DEF F!Counted, F!Installs
  <1>2. counted \subseteq DOMAIN report[d]
    BY DEF F!Counted
  <1>3. DOMAIN report[d] = 1 .. Len(report[d]) /\ Len(report[d]) \in Nat
    BY DEF FunnelTypes
  <1>4. traffic'[d][b] = IF of = {} THEN traffic[d][b]
                         ELSE F!Upserted(traffic[d][b], report[d][F!Max(of)].units)
    BY DEF F!Written
  <1>5. CASE of = {}
    <2>1. traffic'[d][b] = traffic[d][b]
      BY <1>4, <1>5
    <2>2. d \in days => counted = {}
      BY <1>2, <1>5
    <2>3. Shows(d, b)
      BY DEF AllShown
    <2> HIDE DEF counted
    <2> QED
      BY <1>1, <2>1, <2>2, <2>3 DEF Shows, counted
  <1>6. CASE of # {}
    <2>1. F!Max(of) \in of
      BY <1>2, <1>3, <1>6, LastLine
    <2> DEFINE l == F!Max(of)
    <2> HIDE DEF l
    <2>2. l \in counted /\ l \in DOMAIN report[d] /\ F!Installs(report[d][l])
      BY <2>1 DEF l, F!Counted
    <2>3. traffic'[d][b] = report[d][l].units
      BY <1>4, <1>6 DEF F!Upserted, l
    <2>4. report[d][l] \in ReportLines
      BY <2>2, <1>3 DEF FunnelTypes
    <2>5. report[d][l].units > 0 /\ report[d][l].units \in Nat
      BY <2>2, <2>4 DEF F!Installs, ReportLines
    <2> HIDE DEF counted
    <2> QED
      BY <1>1, <2>2, <2>3, <2>5 DEF Shows
  <1> QED
    BY <1>5, <1>6

\* A sync's own step that writes no row and asks for no request.
LEMMA PullStep ==
    ASSUME FunnelInv, NEW s \in FunnelSync, NEW pull \in Pulls, Sound(pull), pull.at # "register",
           reader' = [reader EXCEPT ![s] = pull],
           account' = account, report' = report, exported' = exported, ongoing' = ongoing,
           traffic' = traffic, whole' = whole, together' = together
    PROVE  FunnelInv'
  <1>1. /\ reader' \in [FunnelSync -> Pulls] /\ reader'[s] = pull
        /\ \A t \in FunnelSync \ {s} : reader'[t] = reader[t]
    BY DEF FunnelInv, FunnelTypes
  <1>2. FunnelTypes'
    BY <1>1 DEF FunnelInv, FunnelTypes
  <1>3. PullsSound'
    BY <1>1 DEF FunnelInv, PullsSound, Sound
  <1>4. AllShown'
    BY DEF FunnelInv, AllShown, Shows, F!Counted, F!Installs
  <1>5. AtRegister' \subseteq AtRegister
    BY <1>1 DEF AtRegister
  <1>6. F!Live' = F!Live
    BY DEF F!Live
  <1>7. OneRequest'
    BY <1>5, <1>6 DEF FunnelInv, OneRequest
  <1> QED
    BY <1>2, <1>3, <1>4, <1>7 DEF FunnelInv

\* The stores publish days, and Apple stops requests.
LEMMA StoreStep == ASSUME FunnelInv, F!Publish \/ F!Stop PROVE FunnelInv'
  <1>1. /\ account' = account /\ report' = report /\ traffic' = traffic /\ reader' = reader
        /\ whole' = whole /\ together' = together
    BY DEF F!Publish, F!Stop
  <1>2. ongoing \in Seq(Published) /\ exported \subseteq F!Day
    BY DEF FunnelInv, FunnelTypes
  <1>3. /\ exported' \subseteq F!Day
        /\ ongoing' \in Seq(Published) /\ DOMAIN ongoing' = DOMAIN ongoing
        /\ \A r \in DOMAIN ongoing : ongoing'[r].live => ongoing[r].live
    <2>1. CASE F!Publish
      <3>1. PICK d \in F!Day :
              \/ exported' = exported \union {d} /\ ongoing' = ongoing
              \/ /\ exported' = exported
                 /\ ongoing' = [r \in DOMAIN ongoing |->
                        IF ongoing[r].live THEN [ongoing[r] EXCEPT !.days = @ \union {d}]
                                           ELSE ongoing[r]]
        BY <2>1 DEF F!Publish
      <3>2. CASE exported' = exported \union {d} /\ ongoing' = ongoing
        BY <3>2, <1>2
      <3>3. CASE /\ exported' = exported
                 /\ ongoing' = [r \in DOMAIN ongoing |->
                        IF ongoing[r].live THEN [ongoing[r] EXCEPT !.days = @ \union {d}]
                                           ELSE ongoing[r]]
        <4> DEFINE next(q) == IF q.live THEN [q EXCEPT !.days = @ \union {d}] ELSE q
        <4>1. \A q \in Published : next(q) \in Published /\ next(q).live = q.live
          BY DEF Published
        <4>2. ongoing' = [r \in DOMAIN ongoing |-> next(ongoing[r])]
          BY <3>3
        <4>3. \A r \in DOMAIN ongoing : ongoing[r] \in Published
          BY <1>2
        <4> HIDE DEF next
        <4>4. \A r \in DOMAIN ongoing : ongoing'[r] \in Published /\ ongoing'[r].live = ongoing[r].live
          BY <4>1, <4>2, <4>3
        <4>5. DOMAIN ongoing' = DOMAIN ongoing /\ ongoing' \in Seq(Published)
          BY <1>2, <4>1, <4>2, <4>3
        <4> QED
          BY <4>4, <4>5, <3>3, <1>2
      <3> QED
        BY <3>1, <3>2, <3>3
    <2>2. CASE F!Stop
      <3>1. PICK r \in DOMAIN ongoing : ongoing' = [ongoing EXCEPT ![r].live = FALSE]
        BY <2>2 DEF F!Stop
      <3>2. exported' = exported
        BY <2>2 DEF F!Stop
      <3> DEFINE new == [ongoing[r] EXCEPT !.live = FALSE]
      <3>3. ongoing[r] \in Published
        BY <1>2
      <3>4. new \in Published /\ new.live = FALSE
        BY <3>3 DEF Published
      <3>5. ongoing' = [ongoing EXCEPT ![r] = new]
        BY <3>1
      <3> HIDE DEF new
      <3>6. ongoing' \in Seq(Published) /\ DOMAIN ongoing' = DOMAIN ongoing
            /\ \A q \in DOMAIN ongoing : ongoing'[q] = IF q = r THEN new ELSE ongoing[q]
        BY <1>2, <3>4, <3>5
      <3> QED
        BY <3>2, <3>4, <3>6, <1>2
    <2> QED
      BY <2>1, <2>2
  <1>4. FunnelTypes'
    BY <1>1, <1>3 DEF FunnelInv, FunnelTypes
  <1>5. PullsSound'
    BY <1>1, <1>3 DEF FunnelInv, PullsSound, Sound
  <1>6. AllShown'
    BY <1>1 DEF FunnelInv, AllShown, Shows, F!Counted, F!Installs
  <1>7. AtRegister' = AtRegister
    BY <1>1 DEF AtRegister
  <1>8. F!Live' \subseteq F!Live
    BY <1>3 DEF F!Live
  <1>9. OneRequest'
    BY <1>1, <1>7, <1>8 DEF FunnelInv, OneRequest
  <1> QED
    BY <1>4, <1>5, <1>6, <1>9 DEF FunnelInv

\* A sync begins, finds its instances, or fails before it has read any.
LEMMA PullBegins ==
    ASSUME FunnelInv, NEW s \in FunnelSync, F!Begin(s) \/ F!Find(s) \/ F!Fail(s) PROVE FunnelInv'
  <1>1. /\ account' = account /\ report' = report /\ exported' = exported /\ ongoing' = ongoing
        /\ traffic' = traffic /\ whole' = whole /\ together' = together
    BY DEF F!Begin, F!Find, F!Fail
  <1>2. reader[s] \in Pulls /\ Sound(reader[s]) /\ exported \subseteq F!Day
        /\ ongoing \in Seq(Published)
    BY DEF FunnelInv, FunnelTypes, PullsSound
  <1>3. PICK pull \in Pulls : Sound(pull) /\ pull.at # "register" /\ reader' = [reader EXCEPT ![s] = pull]
    <2>1. CASE F!Begin(s)
      <3> DEFINE file == [F!Idle EXCEPT !.at = "read", !.days = exported]
                 list == [F!Idle EXCEPT !.at = "list"]
      <3>1. file \in Pulls /\ file.at = "read" /\ file.full = {}
        BY <1>2 DEF F!Idle, Pulls
      <3>2. list \in Pulls /\ list.at = "list" /\ list.full = {}
        BY DEF F!Idle, Pulls
      <3>3. reader' = [reader EXCEPT ![s] = file] \/ reader' = [reader EXCEPT ![s] = list]
        BY <2>1 DEF F!Begin
      <3> HIDE DEF file, list
      <3>4. Sound(file) /\ Sound(list)
        BY <3>1, <3>2 DEF Sound
      <3> QED
        BY <3>1, <3>2, <3>3, <3>4
    <2>2. CASE F!Find(s)
      <3> DEFINE new == [reader[s] EXCEPT !.at = "read", !.days = ongoing[reader[s].request].days]
      <3>1. reader[s].request \in DOMAIN ongoing
        BY <2>2, <1>2 DEF F!Find, Sound
      <3>2. ongoing[reader[s].request] \in Published
        BY <3>1, <1>2
      <3>3. ongoing[reader[s].request].days \subseteq F!Day
        BY <3>2 DEF Published
      <3>4. new \in Pulls /\ new.at = "read" /\ new.full = reader[s].full /\ new.got = reader[s].got
        BY <3>3, <1>2 DEF Pulls
      <3>5. reader' = [reader EXCEPT ![s] = new]
        BY <2>2 DEF F!Find
      <3> HIDE DEF new
      <3>6. Sound(new)
        BY <3>4, <1>2 DEF Sound
      <3> QED
        BY <3>4, <3>5, <3>6
    <2>3. CASE F!Fail(s)
      BY <2>3, IdlePull DEF F!Fail
    <2> QED
      BY <2>1, <2>2, <2>3
  <1> QED
    BY <1>1, <1>3, PullStep

\* A live request is read, or one is about to be registered.
LEMMA PullLists == ASSUME FunnelInv, NEW s \in FunnelSync, F!List(s) PROVE FunnelInv'
  <1>1. /\ account' = account /\ report' = report /\ exported' = exported /\ ongoing' = ongoing
        /\ traffic' = traffic /\ whole' = whole
        /\ together' = (together \/ (F!Usable = {} /\ \E t \in FunnelSync : reader[t].at = "register"))
    BY DEF F!List
  <1>2. F!Usable = F!Live
    BY DEF F!Usable
  <1>3. CASE F!Live # {}
    <2> DEFINE new == [F!Idle EXCEPT !.at = "find", !.request = F!Min(F!Live)]
    <2>1. ongoing \in Seq(Published)
      BY DEF FunnelInv, FunnelTypes
    <2>2. F!Live \subseteq DOMAIN ongoing /\ F!Live \subseteq Nat
      BY <2>1 DEF F!Live
    <2>3. F!Min(F!Live) \in DOMAIN ongoing /\ F!Min(F!Live) \in Nat
      BY <1>3, <2>2, FirstOf
    <2>4. new \in Pulls /\ new.at = "find" /\ new.full = {} /\ new.request = F!Min(F!Live)
      BY <2>3 DEF F!Idle, Pulls
    <2>5. reader' = [reader EXCEPT ![s] = new]
      BY <1>2, <1>3 DEF F!List
    <2> HIDE DEF new
    <2>6. Sound(new)
      BY <2>3, <2>4 DEF Sound
    <2>7. together' = together
      BY <1>1, <1>2, <1>3, Zenon DEF FunnelInv, FunnelTypes
    <2> QED
      BY <1>1, <2>4, <2>5, <2>6, <2>7, PullStep
  <1>4. CASE F!Live = {}
    <2> DEFINE new == [F!Idle EXCEPT !.at = "register"]
    <2>1. new \in Pulls /\ new.at = "register" /\ new.full = {}
      BY DEF F!Idle, Pulls
    <2>2. reader' = [reader EXCEPT ![s] = new]
      BY <1>2, <1>4 DEF F!List
    <2> HIDE DEF new
    <2>3. /\ reader' \in [FunnelSync -> Pulls] /\ reader'[s] = new
          /\ \A t \in FunnelSync \ {s} : reader'[t] = reader[t]
      BY <2>1, <2>2 DEF FunnelInv, FunnelTypes
    <2>4. together' \in BOOLEAN
      BY <1>1, Zenon
    <2>5. FunnelTypes'
      BY <1>1, <2>3, <2>4 DEF FunnelInv, FunnelTypes
    <2>6. PullsSound'
      BY <1>1, <2>1, <2>3 DEF FunnelInv, PullsSound, Sound
    <2>7. AllShown'
      BY <1>1 DEF FunnelInv, AllShown, Shows, F!Counted, F!Installs
    <2>8. F!Live' = {}
      BY <1>1, <1>4 DEF F!Live
    <2>9. ASSUME ~together' PROVE AtRegister' \subseteq {s}
      <3>1. ~(\E t \in FunnelSync : reader[t].at = "register")
        BY <2>9, <1>1, <1>2, <1>4
      <3> QED
        BY <3>1, <2>3 DEF AtRegister
    <2>10. OneRequest'
      BY <2>8, <2>9 DEF OneRequest
    <2> QED
      BY <2>5, <2>6, <2>7, <2>10 DEF FunnelInv
  <1> QED
    BY <1>3, <1>4

\* The request is registered, as the only one that is live.
LEMMA PullRegisters == ASSUME FunnelInv, NEW s \in FunnelSync, F!Register(s) PROVE FunnelInv'
  <1> DEFINE new == [live |-> TRUE, days |-> {}]
  <1>1. /\ account' = account /\ report' = report /\ exported' = exported
        /\ traffic' = traffic /\ whole' = whole /\ together' = together
        /\ ongoing' = Append(ongoing, new) /\ reader' = [reader EXCEPT ![s] = F!Idle]
        /\ reader[s].at = "register"
    BY DEF F!Register
  <1>2. new \in Published
    BY DEF Published
  <1> HIDE DEF new
  <1>3. ongoing \in Seq(Published)
    BY DEF FunnelInv, FunnelTypes
  <1>4. /\ ongoing' \in Seq(Published) /\ DOMAIN ongoing' = 1 .. Len(ongoing) + 1
        /\ DOMAIN ongoing = 1 .. Len(ongoing) /\ Len(ongoing) \in Nat
        /\ \A r \in DOMAIN ongoing : ongoing'[r] = ongoing[r]
    BY <1>1, <1>2, <1>3
  <1>5. /\ reader' \in [FunnelSync -> Pulls] /\ reader'[s] = F!Idle
        /\ \A t \in FunnelSync \ {s} : reader'[t] = reader[t]
    BY <1>1, IdlePull DEF FunnelInv, FunnelTypes
  <1>6. FunnelTypes'
    BY <1>1, <1>4, <1>5 DEF FunnelInv, FunnelTypes
  <1>7. PullsSound'
    <2>1. DOMAIN ongoing \subseteq DOMAIN ongoing'
      BY <1>4
    <2> QED
      BY <1>1, <1>5, <2>1, IdlePull DEF FunnelInv, PullsSound, Sound
  <1>8. AllShown'
    BY <1>1 DEF FunnelInv, AllShown, Shows, F!Counted, F!Installs
  <1>9. ASSUME ~together' PROVE AtRegister' = {} /\ \A r, q \in F!Live' : r = q
    <2>1. s \in AtRegister /\ \A t \in AtRegister : t = s
      BY <1>1, <1>9 DEF FunnelInv, OneRequest, AtRegister
    <2>2. F!Live = {}
      BY <1>1, <1>9, <2>1 DEF FunnelInv, OneRequest
    <2>3. AtRegister' = {}
      BY <1>5, <2>1, IdlePull DEF AtRegister
    <2>4. F!Live' \subseteq {Len(ongoing) + 1}
      BY <1>4, <2>2 DEF F!Live
    <2> QED
      BY <2>3, <2>4
  <1>10. OneRequest'
    BY <1>9 DEF OneRequest
  <1> QED
    BY <1>6, <1>7, <1>8, <1>10 DEF FunnelInv

\* An instance is read, in part or whole.
LEMMA PullReads == ASSUME FunnelInv, NEW s \in FunnelSync, F!Read(s) PROVE FunnelInv'
  <1> DEFINE d == F!Min(reader[s].days)
  <1>1. PICK had \in SUBSET DOMAIN report[d] :
          reader' = [reader EXCEPT ![s] = [reader[s] EXCEPT
                        !.days = @ \ {d},
                        !.got = @ \union {[day |-> d, at |-> l] : l \in had},
                        !.full = IF had = DOMAIN report[d] THEN @ \union {d} ELSE @]]
    BY DEF F!Read
  <1>2. /\ account' = account /\ report' = report /\ exported' = exported /\ ongoing' = ongoing
        /\ traffic' = traffic /\ whole' = whole /\ together' = together
        /\ reader[s].days # {} /\ reader[s].at = "read"
    BY DEF F!Read
  <1>3. reader[s] \in Pulls /\ Sound(reader[s])
    BY DEF FunnelInv, FunnelTypes, PullsSound
  <1>4. reader[s].days \subseteq F!Day /\ reader[s].days \subseteq Nat
    BY <1>3 DEF Pulls, F!Day
  <1>5. d \in F!Day
    BY <1>2, <1>4, FirstOf
  <1>6. DOMAIN report[d] = 1 .. Len(report[d])
    BY <1>5 DEF FunnelInv, FunnelTypes
  <1> HIDE DEF d
  <1> DEFINE more == {[day |-> d, at |-> l] : l \in had}
             full == IF had = DOMAIN report[d] THEN reader[s].full \union {d} ELSE reader[s].full
             new == [reader[s] EXCEPT !.days = reader[s].days \ {d}, !.got = reader[s].got \union more,
                                      !.full = full]
  <1>7. more \subseteq [day : F!Day, at : Nat] /\ full \subseteq F!Day
    BY <1>3, <1>5, <1>6 DEF Pulls
  <1>8. reader' = [reader EXCEPT ![s] = new]
    BY <1>1
  <1> HIDE DEF more
  <1>9. /\ new \in Pulls /\ new.at = "read" /\ new.got = reader[s].got \union more /\ new.full = full
    BY <1>2, <1>3, <1>7 DEF Pulls
  <1> HIDE DEF new
  <1>10. Sound(new)
    <2>1. ASSUME NEW day \in full, NEW l \in DOMAIN report[day]
          PROVE  [day |-> day, at |-> l] \in reader[s].got \union more
      <3>1. CASE day \in reader[s].full
        BY <3>1, <1>3 DEF Sound
      <3>2. CASE day \notin reader[s].full
        <4>1. day = d /\ had = DOMAIN report[d]
          BY <3>2
        <4> QED
          BY <4>1 DEF more
      <3> QED
        BY <3>1, <3>2
    <2> QED
      BY <1>9, <2>1 DEF Sound
  <1> QED
    BY <1>2, <1>8, <1>9, <1>10, PullStep

\* The rows are written, all or some.
LEMMA PullWrites ==
    ASSUME FunnelInv, NEW s \in FunnelSync, F!Write(s) \/ F!WriteFails(s) PROVE FunnelInv'
  <1>1. /\ account' = account /\ report' = report /\ exported' = exported /\ ongoing' = ongoing
        /\ together' = together /\ reader' = [reader EXCEPT ![s] = F!Idle]
    BY DEF F!Write, F!WriteFails
  <1>2. reader[s] \in Pulls /\ Sound(reader[s])
    BY DEF FunnelInv, FunnelTypes, PullsSound
  <1>3. \E lines, days : /\ traffic' = F!Written(lines) /\ whole' = whole \union days
                         /\ days \subseteq F!Day
                         /\ \A d \in days : \A l \in DOMAIN report[d] : [day |-> d, at |-> l] \in lines
    <2>1. CASE F!Write(s)
      <3>1. /\ traffic' = F!Written(reader[s].got) /\ whole' = whole \union reader[s].full
        BY <2>1 DEF F!Write
      <3>2. reader[s].full \subseteq F!Day
        BY <1>2 DEF Pulls
      <3> QED
        BY <1>2, <3>1, <3>2 DEF Sound
    <2>2. CASE F!WriteFails(s)
      <3>1. PICK lines : traffic' = F!Written(lines)
        BY <2>2 DEF F!WriteFails
      <3>2. PICK days : days = {}
        OBVIOUS
      <3>3. whole' = whole \union days
        BY <2>2, <3>2 DEF F!WriteFails
      <3>4. days \subseteq F!Day /\ \A d \in days : \A l \in DOMAIN report[d] : [day |-> d, at |-> l] \in lines
        BY <3>2
      <3> QED
        BY <3>1, <3>3, <3>4
    <2> QED
      BY <2>1, <2>2
  <1>4. AllShown' /\ whole' \subseteq F!Day
    BY <1>1, <1>3, RowsShow DEF FunnelInv, FunnelTypes
  <1>5. /\ reader' \in [FunnelSync -> Pulls] /\ reader'[s] = F!Idle
        /\ \A t \in FunnelSync \ {s} : reader'[t] = reader[t]
    BY <1>1, IdlePull DEF FunnelInv, FunnelTypes
  <1>6. FunnelTypes'
    BY <1>1, <1>4, <1>5 DEF FunnelInv, FunnelTypes
  <1>7. PullsSound'
    BY <1>1, <1>5, IdlePull DEF FunnelInv, PullsSound, Sound
  <1>8. AtRegister' \subseteq AtRegister
    BY <1>5, IdlePull DEF AtRegister
  <1>9. F!Live' = F!Live
    BY <1>1 DEF F!Live
  <1>10. OneRequest'
    BY <1>1, <1>8, <1>9 DEF FunnelInv, OneRequest
  <1> QED
    BY <1>4, <1>6, <1>7, <1>10 DEF FunnelInv

LEMMA FunnelNext == ASSUME FunnelInv, [F!Next]_F!vars PROVE FunnelInv'
  <1>1. CASE UNCHANGED F!vars
    <2>1. /\ account' = account /\ report' = report /\ exported' = exported /\ ongoing' = ongoing
          /\ traffic' = traffic /\ reader' = reader /\ whole' = whole /\ together' = together
      BY <1>1 DEF F!vars
    <2> QED
      BY <2>1 DEF FunnelInv, FunnelTypes, PullsSound, Sound, AllShown, Shows, F!Counted, F!Installs,
                  OneRequest, AtRegister, F!Live
  <1> QED
    BY <1>1, StoreStep, PullBegins, PullLists, PullRegisters, PullReads, PullWrites DEF F!Next

LEMMA FunnelIsTrue == ASSUME FunnelInv PROVE F!FunnelTrue
  <1>1. \A d \in F!Day, b \in F!Bucket : Shows(d, b)
    BY DEF FunnelInv, AllShown
  <1>2. ASSUME ~together PROVE F!Cardinality(F!Live) <= 1
    <2>1. F!Live = {} \/ \E r : F!Live = {r}
      BY <1>2 DEF FunnelInv, OneRequest
    <2>2. Cardinality(F!Live) <= 1
      <3>1. CASE F!Live = {}
        BY <3>1, FS_EmptySet
      <3>2. ASSUME NEW r, F!Live = {r} PROVE Cardinality(F!Live) <= 1
        <4>1. Cardinality(F!Live) = 1
          BY <3>2, FS_Singleton, Zenon
        <4> QED
          BY <4>1
      <3> QED
        BY <2>1, <3>1, <3>2
    <2>3. F!Cardinality(F!Live) = Cardinality(F!Live)
      BY DEF F!Cardinality, Cardinality
    <2> QED
      BY <2>2, <2>3
  <1> QED
    BY <1>1, <1>2 DEF F!FunnelTrue, Shows

-----------------------------------------------------------------------------
(* The timeline.  What a storefront shows is never older than what was     *)
(* read of it.  A sync that no other has overtaken has read it after every *)
(* row there is; so its row is of a later text.                            *)

Faces == [text : Nat, icon : Nat]
Versions == [front : Front, text : Nat, icon : Nat]
Walks == [at : {"idle", "next", "compare", "create"}, left : SUBSET Front,
          front : Front \union {"none"}, detail : Faces, since : Nat]
Tally == {"edits", "syncs", "troubles"}

TimelineTypes ==
    /\ shown \in [Front -> Faces]
    /\ listings \in Seq(Versions)
    /\ listing \in [ListingSync -> Walks]
    /\ overlapped \in BOOLEAN
    /\ DOMAIN edits = Tally /\ \A b \in Tally : edits[b] \in Nat

InHand(s) == listing[s].at \in {"compare", "create"}

\* A text that was read was shown, and what is shown since took an edit each.
WasShown(f, n) == n <= shown[f].text /\ shown[f].text <= n + edits.edits

Read ==
    /\ \A i \in DOMAIN listings : WasShown(listings[i].front, listings[i].text)
    /\ \A s \in ListingSync :
        /\ listing[s].since <= Len(listings)
        /\ InHand(s) => /\ listing[s].front \in Front
                        /\ WasShown(listing[s].front, listing[s].detail.text)

\* The rows of a storefront are of later and later texts; alone, of one each.
Later ==
    /\ \A i, k \in DOMAIN listings :
        listings[i].front = listings[k].front /\ i < k => listings[i].text < listings[k].text
    /\ \A f \in Front : (\A i \in DOMAIN listings : listings[i].front = f) =>
        \A i \in DOMAIN listings : listings[i].text >= listings[1].text + i - 1

\* The rows there were when a sync began are no later than what it has in hand; and earlier,
\* if it is about to write and nobody has overtaken it.
Ordered(s) ==
    \A i \in DOMAIN listings : listings[i].front = listing[s].front =>
        /\ InHand(s) /\ i <= listing[s].since => listings[i].text <= listing[s].detail.text
        /\ listing[s].at = "create" =>
            listings[i].text < listing[s].detail.text \/ L!Overtaken(s)

TimelineInv ==
    TimelineTypes /\ Read /\ (overlapped \/ (Later /\ \A s \in ListingSync : Ordered(s)))

-----------------------------------------------------------------------------

LEMMA GreatestOf ==
    ASSUME NEW n \in Nat, NEW S, S \subseteq 1 .. n, S # {}
    PROVE  L!Newest(S) \in S /\ \A k \in S : k <= L!Newest(S)
  BY Greatest DEF L!Newest

\* The rows.
LEMMA RowTypes ==
    ASSUME TimelineTypes
    PROVE  /\ DOMAIN listings = 1 .. Len(listings) /\ Len(listings) \in Nat
           /\ \A i \in DOMAIN listings :
                /\ listings[i] \in Versions /\ listings[i].front \in Front
                /\ listings[i].text \in Nat
  <1>1. listings \in Seq(Versions)
    BY DEF TimelineTypes
  <1>2. DOMAIN listings = 1 .. Len(listings) /\ Len(listings) \in Nat
        /\ \A i \in DOMAIN listings : listings[i] \in Versions
    BY <1>1
  <1>3. \A v \in Versions : v.front \in Front /\ v.text \in Nat
    BY DEF Versions
  <1> QED
    BY <1>2, <1>3

\* Nothing has been synced at first.
LEMMA TimelineInit == ASSUME L!Init PROVE TimelineInv
  <1>1. PICK text \in [Front -> {1, 2}] : shown = [f \in Front |-> [text |-> text[f], icon |-> 1]]
    BY DEF L!Init
  <1>2. shown \in [Front -> Faces]
    BY <1>1 DEF Faces
  <1>3. L!Idle \in Walks /\ L!Idle.at = "idle" /\ L!Idle.since = 0
    BY DEF L!Idle, L!Nothing, Walks, Faces
  <1>4. /\ listings = <<>> /\ overlapped = FALSE
        /\ listing \in [ListingSync -> Walks] /\ \A s \in ListingSync : listing[s] = L!Idle
    BY <1>3 DEF L!Init
  <1>5. DOMAIN edits = Tally /\ \A b \in Tally : edits[b] \in Nat
    BY DEF L!Init, Tally
  <1>6. TimelineTypes
    <2>1. listings \in Seq(Versions)
      BY <1>4
    <2>2. overlapped \in BOOLEAN
      BY <1>4, Zenon
    <2> QED
      BY <1>2, <1>4, <1>5, <2>1, <2>2 DEF TimelineTypes
  <1>7. Read
    BY <1>3, <1>4 DEF Read, InHand
  <1>8. Later /\ \A s \in ListingSync : Ordered(s)
    BY <1>4 DEF Later, Ordered
  <1> QED
    BY <1>6, <1>7, <1>8 DEF TimelineInv

\* What is spent is counted.
LEMMA TimelineSpends ==
    ASSUME TimelineTypes, NEW b \in Tally, NEW most, L!Spend(b, most)
    PROVE  /\ DOMAIN edits' = Tally /\ \A c \in Tally : edits'[c] \in Nat
           /\ \A c \in Tally : edits'[c] = IF c = b THEN edits[c] + 1 ELSE edits[c]
  <1>1. edits' = [edits EXCEPT ![b] = edits[b] + 1]
    BY DEF L!Spend
  <1>2. DOMAIN edits = Tally /\ \A c \in Tally : edits[c] \in Nat
    BY DEF TimelineTypes
  <1> QED
    BY <1>1, <1>2

\* The developer's edit: one text may be later, by one.
LEMMA TimelineEdit == ASSUME TimelineInv, L!Edit PROVE TimelineInv'
  <1>1. PICK f \in Front : \/ shown' = [shown EXCEPT ![f].text = shown[f].text + 1]
                           \/ shown' = [shown EXCEPT ![f].icon = shown[f].icon + 1]
    BY DEF L!Edit
  <1>2. L!Spend("edits", MaxEdits) /\ listings' = listings /\ listing' = listing
        /\ overlapped' = overlapped
    BY DEF L!Edit
  <1>3. shown \in [Front -> Faces] /\ shown[f] \in Faces /\ TimelineTypes
    BY DEF TimelineInv, TimelineTypes
  <1>4. /\ DOMAIN edits' = Tally /\ \A b \in Tally : edits'[b] \in Nat
        /\ edits'.edits = edits.edits + 1 /\ edits.edits \in Nat
    BY <1>2, <1>3, TimelineSpends DEF Tally, TimelineTypes
  <1>5. PICK face \in Faces : /\ shown' = [shown EXCEPT ![f] = face]
                              /\ face.text \in {shown[f].text, shown[f].text + 1}
    <2> DEFINE bold == [shown[f] EXCEPT !.text = shown[f].text + 1]
               bright == [shown[f] EXCEPT !.icon = shown[f].icon + 1]
    <2>1. bold \in Faces /\ bold.text = shown[f].text + 1
      BY <1>3 DEF Faces
    <2>2. bright \in Faces /\ bright.text = shown[f].text
      BY <1>3 DEF Faces
    <2>3. shown' = [shown EXCEPT ![f] = bold] \/ shown' = [shown EXCEPT ![f] = bright]
      BY <1>1, <1>3
    <2> HIDE DEF bold, bright
    <2> QED
      BY <2>1, <2>2, <2>3
  <1>6. /\ shown' \in [Front -> Faces]
        /\ \A g \in Front : shown'[g].text \in {shown[g].text, shown[g].text + 1}
    BY <1>3, <1>5
  <1>7. \A g \in Front, n \in Nat : WasShown(g, n) => WasShown(g, n)'
    <2> TAKE g \in Front, n \in Nat
    <2>1. shown[g].text \in Nat
      BY <1>3 DEF Faces
    <2> QED
      BY <2>1, <1>4, <1>6 DEF WasShown
  <1>8. TimelineTypes'
    BY <1>2, <1>3, <1>4, <1>6 DEF TimelineTypes
  <1>9. Read'
    <2>1. \A i \in DOMAIN listings : listings[i].front \in Front /\ listings[i].text \in Nat
      BY <1>3, RowTypes
    <2>2. \A s \in ListingSync : listing[s].detail.text \in Nat
      BY <1>3 DEF TimelineTypes, Walks, Faces
    <2> QED
      BY <2>1, <2>2, <1>2, <1>7 DEF TimelineInv, Read, InHand
  <1>10. (Later' <=> Later) /\ \A s \in ListingSync : Ordered(s)' <=> Ordered(s)
    BY <1>2 DEF Later, Ordered, InHand, L!Overtaken, L!OfFront
  <1> QED
    BY <1>2, <1>8, <1>9, <1>10 DEF TimelineInv

\* A sync that takes a step of its own and writes nothing.
LEMMA SyncStep ==
    ASSUME TimelineInv, NEW s \in ListingSync, NEW walk \in Walks,
           listing' = [listing EXCEPT ![s] = walk], walk.since <= Len(listings),
           walk.at \in {"compare", "create"} =>
                walk.front \in Front /\ WasShown(walk.front, walk.detail.text),
           overlapped \/ Ordered(s)',
           listings' = listings, shown' = shown, overlapped' = overlapped,
           \/ edits' = edits
           \/ \E b \in {"syncs", "troubles"} : \E most : L!Spend(b, most)
    PROVE  TimelineInv'
  <1>1. TimelineTypes
    BY DEF TimelineInv
  <1>2. /\ listing' \in [ListingSync -> Walks] /\ listing'[s] = walk
        /\ \A r \in ListingSync \ {s} : listing'[r] = listing[r]
    BY <1>1 DEF TimelineTypes
  <1>3. /\ DOMAIN edits' = Tally /\ \A b \in Tally : edits'[b] \in Nat
        /\ edits'.edits = edits.edits
    <2>1. CASE edits' = edits
      BY <2>1, <1>1 DEF TimelineTypes
    <2>2. ASSUME NEW b \in {"syncs", "troubles"}, NEW most, L!Spend(b, most)
          PROVE  /\ DOMAIN edits' = Tally /\ \A c \in Tally : edits'[c] \in Nat
                 /\ edits'.edits = edits.edits
      <3>1. b \in Tally /\ "edits" \in Tally /\ b # "edits"
        BY DEF Tally
      <3> QED
        BY <3>1, <2>2, <1>1, TimelineSpends
    <2> QED
      BY <2>1, <2>2
  <1>4. TimelineTypes'
    BY <1>1, <1>2, <1>3 DEF TimelineTypes
  <1>5. \A f, n : WasShown(f, n)' <=> WasShown(f, n)
    BY <1>3 DEF WasShown
  <1>6. Read'
    BY <1>2, <1>5 DEF TimelineInv, Read, InHand
  <1>7. \A r \in ListingSync \ {s} : Ordered(r) => Ordered(r)'
    BY <1>2 DEF Ordered, InHand, L!Overtaken, L!OfFront
  <1>8. Later => Later'
    BY DEF Later
  <1> QED
    BY <1>4, <1>6, <1>7, <1>8 DEF TimelineInv

\* A sync that begins, ends, or is given up.
LEMMA SyncRests ==
    ASSUME TimelineInv, NEW s \in ListingSync, L!Begin(s) \/ L!CreateFails(s) \/ L!End(s)
    PROVE  TimelineInv'
  <1> DEFINE new == [L!Idle EXCEPT !.at = "next", !.left = Front, !.since = Len(listings)]
  <1>1. listings \in Seq(Versions) /\ Len(listings) \in Nat
    BY DEF TimelineInv, TimelineTypes
  <1>2. L!Idle \in Walks /\ L!Idle.at = "idle" /\ L!Idle.since = 0
    BY DEF L!Idle, L!Nothing, Walks, Faces
  <1>3. new \in Walks /\ new.at = "next" /\ new.since = Len(listings)
    BY <1>1 DEF L!Idle, L!Nothing, Walks, Faces
  <1>4. /\ listing' = [listing EXCEPT ![s] = new] \/ listing' = [listing EXCEPT ![s] = L!Idle]
        /\ listings' = listings /\ shown' = shown /\ overlapped' = overlapped
        /\ \/ edits' = edits
           \/ \E b \in {"syncs", "troubles"} : \E most : L!Spend(b, most)
    BY DEF L!Begin, L!CreateFails, L!End
  <1> HIDE DEF new
  <1>5. PICK walk \in Walks : /\ listing' = [listing EXCEPT ![s] = walk]
                              /\ walk.at \in {"idle", "next"} /\ walk.since <= Len(listings)
    BY <1>1, <1>2, <1>3, <1>4
  <1>6. listing'[s] = walk
    BY <1>5 DEF TimelineInv, TimelineTypes
  <1>7. Ordered(s)'
    BY <1>5, <1>6 DEF Ordered, InHand
  <1> QED
    BY <1>4, <1>5, <1>7, SyncStep

\* A storefront is fetched: what is in hand is what is shown, and no row is later.
LEMMA SyncFetches == ASSUME TimelineInv, NEW s \in ListingSync, L!Fetch(s) PROVE TimelineInv'
  <1>1. listing[s] \in Walks /\ TimelineTypes /\ listing \in [ListingSync -> Walks]
        /\ listing[s].since <= Len(listings) /\ listing[s].at = "next"
    BY DEF TimelineInv, TimelineTypes, Read, L!Fetch
  <1>2. listings' = listings /\ shown' = shown /\ overlapped' = overlapped
    BY DEF L!Fetch
  <1>3. ASSUME NEW f \in listing[s].left,
               listing' = [listing EXCEPT ![s] =
                   [listing[s] EXCEPT !.at = "compare", !.left = listing[s].left \ {f},
                                      !.front = f, !.detail = shown[f]]],
               edits' = edits
        PROVE  TimelineInv'
    <2> DEFINE walk == [listing[s] EXCEPT !.at = "compare", !.left = listing[s].left \ {f},
                                          !.front = f, !.detail = shown[f]]
    <2>1. f \in Front /\ shown[f] \in Faces /\ edits.edits \in Nat
      BY <1>1 DEF Walks, TimelineTypes, Tally
    <2>2. /\ walk \in Walks /\ walk.at = "compare" /\ walk.front = f /\ walk.detail = shown[f]
          /\ walk.since = listing[s].since
      BY <1>1, <2>1 DEF Walks
    <2>3. listing' = [listing EXCEPT ![s] = walk]
      BY <1>3
    <2> HIDE DEF walk
    <2>4. WasShown(f, shown[f].text)
      BY <2>1 DEF WasShown, Faces
    <2>5. listing'[s] = walk
      BY <2>3, <1>1
    <2>6. \A i \in DOMAIN listings : listings[i].front = f => listings[i].text <= shown[f].text
      BY DEF TimelineInv, Read, WasShown
    <2>7. Ordered(s)'
      BY <1>2, <2>2, <2>5, <2>6 DEF Ordered
    <2> QED
      BY <1>1, <1>2, <1>3, <2>1, <2>2, <2>3, <2>4, <2>7, SyncStep
  <1>4. ASSUME NEW f \in listing[s].left, L!Spend("troubles", MaxListingTroubles),
               listing' = [listing EXCEPT ![s].left = listing[s].left \ {f}]
        PROVE  TimelineInv'
    <2> DEFINE walk == [listing[s] EXCEPT !.left = listing[s].left \ {f}]
    <2>1. walk \in Walks /\ walk.at = "next" /\ walk.since = listing[s].since
      BY <1>1 DEF Walks
    <2>2. listing' = [listing EXCEPT ![s] = walk]
      BY <1>1, <1>4
    <2> HIDE DEF walk
    <2>3. listing'[s] = walk
      BY <2>2, <1>1
    <2>4. Ordered(s)'
      BY <2>1, <2>3 DEF Ordered, InHand
    <2> QED
      BY <1>1, <1>2, <1>4, <2>1, <2>2, <2>4, SyncStep
  <1> HIDE DEF TimelineInv
  <1>5. PICK f \in listing[s].left :
          \/ /\ listing' = [listing EXCEPT ![s] =
                   [listing[s] EXCEPT !.at = "compare", !.left = listing[s].left \ {f},
                                      !.front = f, !.detail = shown[f]]]
             /\ edits' = edits
          \/ /\ L!Spend("troubles", MaxListingTroubles)
             /\ listing' = [listing EXCEPT ![s].left = listing[s].left \ {f}]
    BY DEF L!Fetch
  <1> QED
    BY <1>3, <1>4, <1>5

\* The latest row is compared: every row that is not ahead of the sync is earlier than what
\* it writes.
LEMMA SyncCompares == ASSUME TimelineInv, NEW s \in ListingSync, L!Compare(s) PROVE TimelineInv'
  <1> DEFINE f == listing[s].front
             of == L!OfFront(f)
             newest == L!Newest(of)
             same == of # {} /\ listings[newest].text = listing[s].detail.text
             step == IF same THEN "next" ELSE "create"
             walk == [listing[s] EXCEPT !.at = step]
  <1>1. /\ listing[s] \in Walks /\ TimelineTypes /\ listing \in [ListingSync -> Walks]
        /\ listings \in Seq(Versions) /\ DOMAIN listings = 1 .. Len(listings)
        /\ listing[s].since <= Len(listings) /\ listing[s].since \in Nat
        /\ listing[s].at = "compare" /\ InHand(s)
        /\ f \in Front /\ WasShown(f, listing[s].detail.text)
        /\ listing[s].detail.text \in Nat
    BY DEF TimelineInv, TimelineTypes, Read, L!Compare, InHand, Walks, Faces
  <1>2. listings' = listings /\ shown' = shown /\ overlapped' = overlapped /\ edits' = edits
        /\ listing' = [listing EXCEPT ![s] = walk]
    BY <1>1 DEF L!Compare, L!Compared
  <1>3. /\ walk \in Walks /\ walk.at = step /\ walk.front = f /\ walk.detail = listing[s].detail
        /\ walk.since = listing[s].since
    BY <1>1 DEF Walks
  <1> HIDE DEF walk
  <1>4. listing'[s] = walk
    BY <1>1, <1>2
  <1>5. ASSUME Later, Ordered(s) PROVE Ordered(s)'
    <2> SUFFICES ASSUME NEW i \in DOMAIN listings, listings[i].front = f, step = "create"
                 PROVE  /\ i <= listing[s].since => listings[i].text <= listing[s].detail.text
                        /\ listings[i].text < listing[s].detail.text \/ L!Overtaken(s)'
      BY <1>2, <1>3, <1>4 DEF Ordered, InHand
    <2>1. i \in of /\ of \subseteq 1 .. Len(listings) /\ Len(listings) \in Nat
      BY <1>1 DEF L!OfFront
    <2>2. newest \in of /\ i <= newest
      BY <2>1, GreatestOf
    <2>3. /\ newest \in DOMAIN listings /\ listings[newest].front = f
          /\ listings[newest].text # listing[s].detail.text
          /\ listings[newest].text \in Nat /\ listings[i].text \in Nat
          /\ newest \in Nat /\ i \in Nat
      BY <2>1, <2>2, <1>1, RowTypes DEF L!OfFront
    <2>4. i <= listing[s].since => listings[i].text <= listing[s].detail.text
      BY <1>1, <1>5 DEF Ordered
    <2>5. CASE newest <= listing[s].since
      <3>1. listings[newest].text <= listing[s].detail.text
        BY <2>3, <2>5, <1>1, <1>5 DEF Ordered
      <3>2. listings[newest].text < listing[s].detail.text
        BY <3>1, <2>3, <1>1
      <3>3. i = newest \/ listings[i].text < listings[newest].text
        BY <2>2, <2>3, <1>5 DEF Later
      <3> QED
        BY <3>2, <3>3, <2>3, <2>4, <1>1
    <2>6. CASE newest > listing[s].since
      <3>1. L!Overtaken(s)'
        BY <2>2, <2>6, <1>2, <1>3, <1>4 DEF L!Overtaken, L!OfFront
      <3> QED
        BY <3>1, <2>4
    <2> QED
      BY <2>3, <2>5, <2>6, <1>1
  <1>6. overlapped \/ Ordered(s)'
    BY <1>5 DEF TimelineInv
  <1> QED
    BY <1>1, <1>2, <1>3, <1>6, SyncStep

\* A row is written, which is the latest of its storefront if no other sync came first.
LEMMA SyncCreates == ASSUME TimelineInv, NEW s \in ListingSync, L!Create(s) PROVE TimelineInv'
  <1> DEFINE f == listing[s].front
             n == Len(listings)
             new == [front |-> f, text |-> listing[s].detail.text, icon |-> listing[s].detail.icon]
             walk == [listing[s] EXCEPT !.at = "next"]
  <1>1. /\ listing[s] \in Walks /\ TimelineTypes /\ listing \in [ListingSync -> Walks]
        /\ listings \in Seq(Versions) /\ DOMAIN listings = 1 .. n /\ n \in Nat
        /\ listing[s].since <= n /\ listing[s].since \in Nat
        /\ listing[s].at = "create" /\ InHand(s)
        /\ f \in Front /\ WasShown(f, listing[s].detail.text)
        /\ listing[s].detail \in Faces
    BY DEF TimelineInv, TimelineTypes, Read, L!Create, InHand, Walks
  <1>2. /\ listings' = Append(listings, new) /\ overlapped' = (overlapped \/ L!Overtaken(s))
        /\ listing' = [listing EXCEPT ![s] = walk] /\ shown' = shown /\ edits' = edits
    BY <1>1 DEF L!Create
  <1>3. new \in Versions /\ new.front = f /\ new.text = listing[s].detail.text
    BY <1>1 DEF Versions, Faces
  <1>4. walk \in Walks /\ walk.at = "next" /\ walk.since = listing[s].since
    BY <1>1 DEF Walks
  <1> HIDE DEF new, walk
  <1>5. /\ listings' \in Seq(Versions) /\ Len(listings') = n + 1 /\ DOMAIN listings' = 1 .. n + 1
        /\ listings'[n + 1] = new /\ \A i \in 1 .. n : listings'[i] = listings[i]
    BY <1>1, <1>2, <1>3
  <1>6. /\ listing' \in [ListingSync -> Walks] /\ listing'[s] = walk
        /\ \A r \in ListingSync \ {s} : listing'[r] = listing[r]
    BY <1>1, <1>2, <1>4
  <1>7. TimelineTypes'
    BY <1>1, <1>2, <1>5, <1>6 DEF TimelineTypes
  <1>8. shown' = shown /\ edits' = edits
    BY <1>2
  <1>9. Read'
    <2>1. \A i \in DOMAIN listings' : WasShown(listings'[i].front, listings'[i].text)
      <3> TAKE i \in DOMAIN listings'
      <3>1. i \in 1 .. n \/ i = n + 1
        BY <1>1, <1>5
      <3>2. i \in 1 .. n => WasShown(listings[i].front, listings[i].text)
        BY <1>1 DEF TimelineInv, Read
      <3>3. CASE i \in 1 .. n
        BY <3>2, <3>3, <1>5
      <3>4. CASE i = n + 1
        BY <3>4, <1>1, <1>3, <1>5
      <3> QED
        BY <3>1, <3>3, <3>4
    <2>2. \A r \in ListingSync : listing'[r].since <= Len(listings')
      <3> TAKE r \in ListingSync
      <3>1. listing[r].since \in Nat /\ listing[r].since <= n
        BY <1>1 DEF TimelineInv, Read, Walks
      <3> QED
        BY <3>1, <1>1, <1>4, <1>5, <1>6
    <2>3. \A r \in ListingSync : listing'[r].at \in {"compare", "create"} =>
            listing'[r].front \in Front /\ WasShown(listing'[r].front, listing'[r].detail.text)
      <3> TAKE r \in ListingSync
      <3>1. CASE r = s
        BY <3>1, <1>4, <1>6
      <3>2. CASE r # s
        BY <3>2, <1>6 DEF TimelineInv, Read, InHand
      <3> QED
        BY <3>1, <3>2
    <2> QED
      BY <2>1, <2>2, <2>3, <1>8 DEF Read, WasShown, InHand
  <1>10. ASSUME ~overlapped' PROVE Later' /\ \A r \in ListingSync : Ordered(r)'
    <2>1. Later /\ Ordered(s) /\ ~L!Overtaken(s) /\ \A r \in ListingSync : Ordered(r)
      BY <1>2, <1>10 DEF TimelineInv
    <2>2. \A i \in 1 .. n : /\ listings[i].text \in Nat
                            /\ listings[i].front = f => listings[i].text < new.text
      BY <2>1, <1>1, <1>3, RowTypes DEF Ordered
    <2>3. \A i, k \in DOMAIN listings' :
            listings'[i].front = listings'[k].front /\ i < k => listings'[i].text < listings'[k].text
      <3> TAKE i, k \in DOMAIN listings'
      <3> SUFFICES ASSUME listings'[i].front = listings'[k].front, i < k
                   PROVE  listings'[i].text < listings'[k].text
        OBVIOUS
      <3>1. i \in 1 .. n /\ (k \in 1 .. n \/ k = n + 1)
        BY <1>1, <1>5
      <3>2. CASE k \in 1 .. n
        BY <3>1, <3>2, <2>1, <1>1, <1>5 DEF Later
      <3>3. CASE k = n + 1
        BY <3>1, <3>3, <2>2, <1>3, <1>5
      <3> QED
        BY <3>1, <3>2, <3>3
    <2>4. ASSUME NEW g \in Front, \A i \in DOMAIN listings' : listings'[i].front = g,
                 NEW i \in DOMAIN listings'
          PROVE  listings'[i].text >= listings'[1].text + i - 1
      <3>1. g = f /\ \A k \in 1 .. n : listings[k].front = g
        BY <2>4, <1>1, <1>3, <1>5
      <3>2. \A k \in 1 .. n : listings[k].text >= listings[1].text + k - 1
        BY <3>1, <2>1, <1>1 DEF Later
      <3>3. CASE n = 0
        <4>1. i = 1
          BY <3>3, <1>5
        <4>2. listings'[1].text \in Nat
          BY <1>5, <3>3, <1>3 DEF Versions
        <4> QED
          BY <4>1, <4>2
      <3>4. CASE n > 0
        <4>1. 1 \in 1 .. n /\ n \in 1 .. n /\ listings'[1] = listings[1] /\ listings[1].text \in Nat
          BY <3>4, <1>1, <1>5, <2>2
        <4>2. CASE i \in 1 .. n
          BY <4>1, <4>2, <3>2, <1>5
        <4>3. CASE i = n + 1
          <5>1. listings[n].text < new.text /\ listings[n].text >= listings[1].text + n - 1
            BY <4>1, <3>1, <3>2, <2>2
          <5>2. listings'[i] = new /\ new.text \in Nat /\ listings[n].text \in Nat
            BY <4>1, <4>3, <1>3, <1>5, <2>2 DEF Versions
          <5> QED
            BY <4>1, <4>3, <5>1, <5>2, <1>1
        <4> QED
          BY <4>2, <4>3, <1>1, <1>5
      <3> QED
        BY <3>3, <3>4, <1>1
    <2>5. Later'
      BY <2>3, <2>4 DEF Later
    <2>6. ASSUME NEW r \in ListingSync PROVE Ordered(r)'
      <3>1. CASE r = s
        BY <3>1, <1>4, <1>6 DEF Ordered, InHand
      <3>2. CASE r # s
        <4>1. listing'[r] = listing[r] /\ listing[r] \in Walks /\ Ordered(r)
              /\ listing[r].since <= n /\ listing[r].since \in Nat
          BY <3>2, <1>1, <1>6, <2>1 DEF TimelineInv, Read, Walks
        <4> SUFFICES ASSUME NEW i \in DOMAIN listings', listings'[i].front = listing[r].front
                     PROVE  /\ InHand(r) /\ i <= listing[r].since =>
                                listings'[i].text <= listing[r].detail.text
                            /\ listing[r].at = "create" =>
                                listings'[i].text < listing[r].detail.text \/ L!Overtaken(r)'
          BY <4>1 DEF Ordered, InHand
        <4>2. L!Overtaken(r) => L!Overtaken(r)'
          BY <4>1, <1>1, <1>5 DEF L!Overtaken, L!OfFront
        <4>3. CASE i \in 1 .. n
          BY <4>1, <4>2, <4>3, <1>1, <1>5 DEF Ordered
        <4>4. CASE i = n + 1
          <5>1. ~(i <= listing[r].since)
            BY <4>1, <4>4, <1>1
          <5>2. L!Overtaken(r)'
            BY <4>1, <4>4, <5>1, <1>1, <1>5 DEF L!Overtaken, L!OfFront
          <5> QED
            BY <5>1, <5>2
        <4> QED
          BY <4>3, <4>4, <1>1, <1>5
      <3> QED
        BY <3>1, <3>2
    <2> QED
      BY <2>5, <2>6
  <1> QED
    BY <1>7, <1>9, <1>10 DEF TimelineInv

LEMMA TimelineNext == ASSUME TimelineInv, [L!Next]_L!vars PROVE TimelineInv'
  <1>1. CASE UNCHANGED L!vars
    <2>1. /\ shown' = shown /\ listings' = listings /\ listing' = listing
          /\ overlapped' = overlapped /\ edits' = edits
      BY <1>1 DEF L!vars
    <2> QED
      BY <2>1 DEF TimelineInv, TimelineTypes, Read, InHand, WasShown, Later, Ordered, L!Overtaken,
                  L!OfFront
  <1> QED
    BY <1>1, TimelineEdit, SyncRests, SyncFetches, SyncCompares, SyncCreates DEF L!Next

\* Rows of one storefront only, each of a text of its own: as many as there were edits, but
\* for the first.
LEMMA ChangesCounted ==
    ASSUME TimelineInv, ~overlapped, NEW f \in Front, L!OfFront(f) = DOMAIN listings
    PROVE  L!Cardinality(L!Changes) <= edits.edits
  <1> DEFINE n == Len(listings)
  <1>1. /\ listings \in Seq(Versions) /\ DOMAIN listings = 1 .. n /\ n \in Nat
        /\ edits.edits \in Nat /\ Later /\ shown[f].text \in Nat
    BY DEF TimelineInv, TimelineTypes, Tally, Faces
  <1>2. \A i \in DOMAIN listings : listings[i].front = f /\ listings[i].text \in Nat
    BY RowTypes DEF L!OfFront, TimelineInv
  <1>3. IsFiniteSet(2 .. n) /\ Cardinality(2 .. n) = IF 2 > n THEN 0 ELSE n - 2 + 1
    BY <1>1, FS_Interval, 2 \in Int, n \in Int
  <1>4. Cardinality(2 .. n) <= edits.edits
    <2>1. CASE n = 0
      BY <2>1, <1>1, <1>3
    <2>2. CASE n > 0
      <3>1. 1 \in DOMAIN listings /\ n \in DOMAIN listings
        BY <2>2, <1>1
      <3>2. listings[n].text >= listings[1].text + n - 1
        BY <3>1, <1>1, <1>2 DEF Later
      <3>3. WasShown(f, listings[n].text) /\ WasShown(f, listings[1].text)
        BY <3>1, <1>2 DEF TimelineInv, Read
      <3> QED
        BY <3>1, <3>2, <3>3, <1>1, <1>2, <1>3 DEF WasShown
    <2> QED
      BY <2>1, <2>2, <1>1
  <1>5. L!Changes \subseteq 2 .. n
    BY DEF L!Changes
  <1>6. Cardinality(L!Changes) <= Cardinality(2 .. n)
    BY <1>3, <1>5, FS_Subset
  <1>7. Cardinality(L!Changes) \in Nat /\ Cardinality(2 .. n) \in Nat
    BY <1>3, <1>5, FS_Subset, FS_CardinalityType
  <1>8. L!Cardinality(L!Changes) = Cardinality(L!Changes)
    BY DEF L!Cardinality, Cardinality
  <1> QED
    BY <1>1, <1>4, <1>6, <1>7, <1>8

LEMMA TimelineIsTrue == ASSUME TimelineInv PROVE L!TimelineTrue
  <1>1. \A f \in Front : \A i \in L!OfFront(f) : listings[i].text <= shown[f].text
    BY DEF TimelineInv, Read, WasShown, L!OfFront
  <1>2. ASSUME ~overlapped
        PROVE  \A f \in Front : \A i, k \in L!OfFront(f) : i < k => listings[i].text < listings[k].text
    BY <1>2 DEF TimelineInv, Later, L!OfFront
  <1> QED
    BY <1>1, <1>2, ChangesCounted DEF L!TimelineTrue

-----------------------------------------------------------------------------
(* The funnel and the timeline                                             *)

\* writeMetrics and metrics.funnel: for any days, lines, requests and syncs the funnel shows
\* what the store counted and not a multiple of it, and all of a day that was read whole.
\* fetchListing and diffListings: for any storefronts and syncs a row of the timeline is of no
\* text the store never showed, and of a later one than the row before, unless syncs crossed;
\* of one storefront there are no more changes than there were edits.
THEOREM PagesStayTrue ==
    ASSUME Reporting
    PROVE  F!Spec /\ L!Spec => [](F!FunnelTrue /\ L!TimelineTrue /\ PagesTrue)
  <1>1. F!Spec => []F!FunnelTrue
    BY FunnelInit, FunnelNext, FunnelIsTrue, PTL DEF F!Spec
  <1>2. L!Spec => []L!TimelineTrue
    BY TimelineInit, TimelineNext, TimelineIsTrue, PTL DEF L!Spec
  <1>3. F!FunnelTrue /\ L!TimelineTrue => PagesTrue
    BY DEF PagesTrue
  <1> QED
    BY <1>1, <1>2, <1>3, PTL

-----------------------------------------------------------------------------
(* The corpus.  What a process has done shows in the rows, so that no      *)
(* selection offers it again.  Who was taken while another term waited is  *)
(* still to be written or stands behind it since, so the next pass takes   *)
(* the one that waits before it.                                           *)

Competitions == [found : BOOLEAN, apps : BOOLEAN, counted : BOOLEAN, starsOnly : BOOLEAN]
Mining ==
    /\ IsFiniteSet(CorpusTerm) /\ Mined \subseteq CorpusTerm
    /\ TermLimit \in Nat /\ MaxSuggestions \in Nat \ {0}
    /\ None \notin Competitions /\ None \notin CorpusTerm

Lanes == [queue : SUBSET CorpusTerm, term : CorpusTerm \union {None}]
Due == [term : CorpusTerm, mean : Nat \ {0}]
Asks == [term : CorpusTerm]
Rounds == {C!Idle} \union [at : {"estimate"}, work : Seq(Due)]
          \union [at : {"validate", "confirm"}, work : Seq(Asks)]

CorpusTypes ==
    /\ DOMAIN scored = CorpusTerm /\ DOMAIN contains = CorpusTerm
    /\ noticed \in [CorpusTerm -> Nat] /\ estimate \in [CorpusTerm -> Nat]
    /\ oldest \in Seq(CorpusTerm)
    /\ lane \in [Process -> Lanes]
    /\ keeper \in [Keeper -> Rounds]
    /\ DOMAIN did = {"once", "again"} /\ did.again = {}
    /\ DOMAIN turns = {"ahead", "overtaken"} /\ ~turns.overtaken
    /\ turns.ahead \in [CorpusTerm -> SUBSET CorpusTerm]

\* A row that no selection takes.
Finished(t) == scored[t] # None /\ ~C!WithoutBasis(scored[t]) /\ ~C!WithoutApps(scored[t])

\* What a process has scored is finished, and not in its lane.
ScoredOnce ==
    \A p \in Process :
        /\ lane[p].term \notin lane[p].queue
        /\ \A t \in CorpusTerm : <<p, "score", t>> \in did.once =>
            Finished(t) /\ t \notin lane[p].queue /\ t # lane[p].term

\* What is left to ask for is in there once and was not asked for; but for the first, of which
\* the store's answer is in hand.
Asking(k, round, once) ==
    /\ round.at = "confirm" => round.work # <<>>
    /\ round.at \in {"validate", "confirm"} =>
        \A n \in DOMAIN round.work :
            /\ \A m \in DOMAIN round.work : round.work[n].term = round.work[m].term => n = m
            /\ round.at = "validate" \/ n > 1 => <<k, "ask", round.work[n].term>> \notin once

AskedOnce ==
    \A k \in Keeper :
        /\ \A t \in CorpusTerm : <<k, "ask", t>> \in did.once => contains[t] # {}
        /\ Asking(k, keeper[k], did.once)

Offered == \A t \in CorpusTerm : TRUE \in contains[t] => noticed[t] > 0 \/ t \in halfway

\* A term that has an estimate is among the oldest once; only terms seen have one or are due one.
InOrder ==
    /\ \A n, m \in DOMAIN oldest : oldest[n] = oldest[m] => n = m
    /\ \A t \in CorpusTerm :
        /\ estimate[t] > 0 <=> \E n \in DOMAIN oldest : oldest[n] = t
        /\ estimate[t] > 0 => noticed[t] > 0
    /\ \A k \in Keeper : keeper[k].at = "estimate" =>
        \A n \in DOMAIN keeper[k].work : noticed[keeper[k].work[n].term] > 0

IsDue(k, t) == keeper[k].at = "estimate" /\ \E n \in DOMAIN keeper[k].work : keeper[k].work[n].term = t
Behind(t, u) ==
    /\ estimate[u] > 0
    /\ \A n, m \in DOMAIN oldest : oldest[n] = t /\ oldest[m] = u => n < m

\* While a term waits one pass at most is under way, and not over the term.
Waiting ==
    /\ (\E t \in CorpusTerm : turns.ahead[t] # {}) =>
        \A k, j \in Keeper : keeper[k].at = "estimate" /\ keeper[j].at = "estimate" => k = j
    /\ \A t \in CorpusTerm : turns.ahead[t] # {} =>
        /\ noticed[t] > 0 /\ \A k \in Keeper : ~IsDue(k, t)
        /\ \A u \in turns.ahead[t] : u # t /\ ((\E k \in Keeper : IsDue(k, u)) \/ Behind(t, u))

CorpusInv == CorpusTypes /\ ScoredOnce /\ AskedOnce /\ Offered /\ InOrder /\ Waiting

-----------------------------------------------------------------------------

LEMMA RoundTypes ==
    ASSUME NEW r \in Rounds
    PROVE  /\ r.at \in {"idle", "estimate", "validate", "confirm"}
           /\ r.at = "idle" => r = C!Idle
           /\ r.at = "estimate" => r.work \in Seq(Due)
           /\ r.at \in {"validate", "confirm"} => r.work \in Seq(Asks)
  BY DEF Rounds, C!Idle

LEMMA RoundTerms ==
    ASSUME NEW r \in Rounds
    PROVE  /\ DOMAIN r.work = 1 .. Len(r.work) /\ Len(r.work) \in Nat
           /\ \A n \in DOMAIN r.work : r.work[n].term \in CorpusTerm
  <1>1. CASE r.work \in Seq(Due)
    <2>1. \A n \in 1 .. Len(r.work) : r.work[n] \in Due
      BY <1>1
    <2> QED
      BY <1>1, <2>1 DEF Due
  <1>2. CASE r.work \in Seq(Asks)
    <2>1. \A n \in 1 .. Len(r.work) : r.work[n] \in Asks
      BY <1>2
    <2> QED
      BY <1>2, <2>1 DEF Asks
  <1>3. CASE r.work = <<>>
    BY <1>3
  <1> QED
    BY <1>1, <1>2, <1>3, RoundTypes DEF C!Idle

LEMMA IdleRound ==
    /\ C!Idle \in Rounds /\ C!Idle.at = "idle" /\ C!Idle.work = <<>>
    /\ \A k, once : Asking(k, C!Idle, once)
  BY DEF Rounds, C!Idle, Asking

\* A finished row is in no selection.
LEMMA FinishedRests == ASSUME NEW t, Finished(t) PROVE t \notin C!Candidates
  BY DEF Finished, C!Candidates, C!Indexed, C!Scored

LEMMA CandidatesKnown == C!Candidates \subseteq CorpusTerm
  BY DEF C!Candidates, C!Indexed, C!Scored, C!Known

\* The lane of one process changes.
LEMMA LaneStep ==
    ASSUME CorpusTypes, ScoredOnce, NEW p \in Process, NEW new \in Lanes,
           lane' = [lane EXCEPT ![p] = new], new.term \notin new.queue,
           \A t \in CorpusTerm : Finished(t) => Finished(t)',
           \A q \in Process \ {p}, t \in CorpusTerm :
                <<q, "score", t>> \in did'.once => <<q, "score", t>> \in did.once,
           \A t \in CorpusTerm : <<p, "score", t>> \in did'.once =>
                Finished(t)' /\ t \notin new.queue /\ t # new.term
    PROVE  ScoredOnce' /\ lane' \in [Process -> Lanes]
  <1>1. /\ lane' \in [Process -> Lanes] /\ lane'[p] = new
        /\ \A q \in Process \ {p} : lane'[q] = lane[q]
    BY DEF CorpusTypes
  <1>2. ASSUME NEW q \in Process \ {p}
        PROVE  /\ lane'[q].term \notin lane'[q].queue
               /\ \A t \in CorpusTerm : <<q, "score", t>> \in did'.once =>
                    Finished(t)' /\ t \notin lane'[q].queue /\ t # lane'[q].term
    BY <1>1 DEF ScoredOnce
  <1>3. /\ lane'[p].term \notin lane'[p].queue
        /\ \A t \in CorpusTerm : <<p, "score", t>> \in did'.once =>
            Finished(t)' /\ t \notin lane'[p].queue /\ t # lane'[p].term
    BY <1>1
  <1> QED
    BY <1>1, <1>2, <1>3 DEF ScoredOnce

\* The lanes stay, whatever is asked.
LEMMA LanesRest ==
    ASSUME CorpusTypes, ScoredOnce, lane' = lane, scored' = scored,
           \A p \in Process, t \in CorpusTerm :
                <<p, "score", t>> \in did'.once => <<p, "score", t>> \in did.once
    PROVE  ScoredOnce' /\ lane' \in [Process -> Lanes]
  BY DEF ScoredOnce, Finished, CorpusTypes

\* The round of one keeper changes.
LEMMA RoundStep ==
    ASSUME CorpusTypes, NEW k \in Keeper, NEW new \in Rounds, keeper' = [keeper EXCEPT ![k] = new]
    PROVE  /\ keeper' \in [Keeper -> Rounds] /\ keeper'[k] = new
           /\ \A j \in Keeper \ {k} : keeper'[j] = keeper[j]
  BY DEF CorpusTypes

LEMMA AskStep ==
    ASSUME CorpusTypes, AskedOnce, NEW k \in Keeper, NEW new \in Rounds,
           keeper' = [keeper EXCEPT ![k] = new],
           \A t \in CorpusTerm : contains[t] # {} => contains'[t] # {},
           \A j \in Keeper \ {k}, t \in CorpusTerm :
                <<j, "ask", t>> \in did'.once => <<j, "ask", t>> \in did.once,
           \A t \in CorpusTerm : <<k, "ask", t>> \in did'.once => contains'[t] # {},
           Asking(k, new, did'.once)
    PROVE  AskedOnce'
  <1>1. /\ keeper'[k] = new /\ keeper' \in [Keeper -> Rounds]
        /\ \A j \in Keeper \ {k} : keeper'[j] = keeper[j]
    BY RoundStep
  <1>2. ASSUME NEW j \in Keeper \ {k} PROVE Asking(j, keeper[j], did'.once)
    <2>1. Asking(j, keeper[j], did.once) /\ keeper[j] \in Rounds
      BY DEF AskedOnce, CorpusTypes
    <2>2. keeper[j].at \in {"validate", "confirm"} =>
            \A n \in DOMAIN keeper[j].work : keeper[j].work[n].term \in CorpusTerm
      BY <2>1, RoundTerms
    <2> QED
      BY <2>1, <2>2 DEF Asking
  <1>3. ASSUME NEW j \in Keeper \ {k}
        PROVE  \A t \in CorpusTerm : <<j, "ask", t>> \in did'.once => contains'[t] # {}
    BY DEF AskedOnce
  <1>4. ASSUME NEW j \in Keeper \ {k} PROVE Asking(j, keeper'[j], did'.once)
    BY <1>1, <1>2
  <1>5. Asking(k, keeper'[k], did'.once)
    BY <1>1
  <1> QED
    BY <1>3, <1>4, <1>5 DEF AskedOnce, Asking

LEMMA CorpusInit == ASSUME Mining, C!Init PROVE CorpusInv
  <1>1. /\ noticed \in [CorpusTerm -> {0, 1}] /\ scored \in [CorpusTerm -> Legacy \union {None}]
        /\ contains = [t \in CorpusTerm |-> {}]
        /\ estimate = [t \in CorpusTerm |-> 0] /\ oldest = <<>>
        /\ lane = [p \in Process |-> C!NoLane] /\ keeper = [k \in Keeper |-> C!Idle]
        /\ did = [once |-> {}, again |-> {}]
        /\ turns = [ahead |-> C!Nobody, overtaken |-> FALSE] /\ halfway = {}
    BY DEF C!Init
  <1>2. C!NoLane \in Lanes /\ C!NoLane.term \notin C!NoLane.queue
    BY DEF C!NoLane, Lanes
  <1>3. C!Nobody \in [CorpusTerm -> SUBSET CorpusTerm] /\ \A t \in CorpusTerm : C!Nobody[t] = {}
    BY DEF C!Nobody
  <1>4. CorpusTypes
    BY <1>1, <1>2, <1>3, IdleRound DEF CorpusTypes
  <1>5. ScoredOnce
    BY <1>1, <1>2 DEF ScoredOnce
  <1>6. AskedOnce
    BY <1>1, IdleRound DEF AskedOnce
  <1>7. Offered /\ InOrder
    BY <1>1, IdleRound DEF Offered, InOrder
  <1>8. Waiting
    BY <1>1, <1>3 DEF Waiting
  <1> QED
    BY <1>4, <1>5, <1>6, <1>7, <1>8 DEF CorpusInv

-----------------------------------------------------------------------------

\* A term is seen once more.
LEMMA TermSeen == ASSUME CorpusInv, NEW t \in CorpusTerm, C!Observe(t) PROVE CorpusInv'
  <1>1. /\ noticed' = [noticed EXCEPT ![t] = noticed[t] + 1]
        /\ scored' = scored /\ contains' = contains /\ estimate' = estimate /\ oldest' = oldest
        /\ lane' = lane /\ keeper' = keeper /\ did' = did /\ turns' = turns /\ halfway' = halfway
    BY DEF C!Observe
  <1>2. noticed' \in [CorpusTerm -> Nat] /\ \A u \in CorpusTerm : noticed[u] > 0 => noticed'[u] > 0
    BY <1>1 DEF CorpusInv, CorpusTypes
  <1>3. CorpusTypes'
    BY <1>1, <1>2 DEF CorpusInv, CorpusTypes
  <1>4. ScoredOnce' /\ AskedOnce'
    BY <1>1 DEF CorpusInv, ScoredOnce, Finished, AskedOnce, Asking
  <1>5. Offered'
    BY <1>1, <1>2 DEF CorpusInv, Offered
  <1>6. InOrder'
    <2>1. ASSUME NEW k \in Keeper, keeper[k].at = "estimate", NEW n \in DOMAIN keeper[k].work
          PROVE  keeper[k].work[n].term \in CorpusTerm
      BY RoundTerms DEF CorpusInv, CorpusTypes
    <2> QED
      BY <1>1, <1>2, <2>1 DEF CorpusInv, InOrder
  <1>7. Waiting'
    BY <1>1, <1>2 DEF CorpusInv, Waiting, IsDue, Behind
  <1> QED
    BY <1>3, <1>4, <1>5, <1>6, <1>7 DEF CorpusInv

\* The lane takes terms, and is done with one.
LEMMA LaneSteps ==
    ASSUME Mining, CorpusInv, NEW p \in Process,
           \/ C!Refill(p) \/ C!ScoreFails(p) \/ \E t \in CorpusTerm : C!Take(p, t)
           \/ \E found, counted \in BOOLEAN : C!Score(p, found, counted)
    PROVE  CorpusInv'
  <1>1. /\ noticed' = noticed /\ contains' = contains /\ estimate' = estimate /\ oldest' = oldest
        /\ keeper' = keeper /\ turns' = turns /\ halfway' = halfway
    BY DEF C!Refill, C!ScoreFails, C!Take, C!Score
  <1>2. /\ lane \in [Process -> Lanes] /\ lane[p] \in Lanes /\ DOMAIN scored = CorpusTerm
        /\ DOMAIN did = {"once", "again"} /\ did.again = {}
    BY DEF CorpusInv, CorpusTypes
  <1>3. CorpusTypes /\ ScoredOnce
    BY DEF CorpusInv
  <1>4. /\ ScoredOnce' /\ lane' \in [Process -> Lanes] /\ DOMAIN scored' = CorpusTerm
        /\ DOMAIN did' = {"once", "again"} /\ did'.again = {}
        /\ \A k, t : <<k, "ask", t>> \in did'.once => <<k, "ask", t>> \in did.once
    <2>1. CASE C!Refill(p)
      <3>1. PICK loaded \in SUBSET C!Candidates : lane' = [lane EXCEPT ![p].queue = loaded]
        BY <2>1 DEF C!Refill
      <3>2. /\ lane[p] = C!NoLane /\ scored' = scored /\ did' = did
        BY <2>1 DEF C!Refill
      <3> DEFINE new == [lane[p] EXCEPT !.queue = loaded]
      <3>3. loaded \subseteq CorpusTerm
        BY CandidatesKnown
      <3>4. new \in Lanes /\ new.queue = loaded /\ new.term = None
        BY <1>2, <3>2, <3>3 DEF Lanes, C!NoLane
      <3>5. lane' = [lane EXCEPT ![p] = new]
        BY <3>1, <1>2
      <3> HIDE DEF new
      <3>6. None \notin CorpusTerm
        BY DEF Mining
      <3>7. \A t \in CorpusTerm : Finished(t) => Finished(t)' /\ t \notin loaded
        BY <3>2, FinishedRests DEF Finished
      <3>8. \A t \in CorpusTerm : <<p, "score", t>> \in did.once => Finished(t)
        BY <1>3 DEF ScoredOnce
      <3>9. ScoredOnce' /\ lane' \in [Process -> Lanes]
        BY <1>3, <3>2, <3>3, <3>4, <3>5, <3>6, <3>7, <3>8, LaneStep
      <3> QED
        BY <1>2, <3>2, <3>9
    <2>2. ASSUME NEW t \in CorpusTerm, C!Take(p, t)
          PROVE  /\ ScoredOnce' /\ lane' \in [Process -> Lanes] /\ scored' = scored /\ did' = did
      <3> DEFINE new == [queue |-> lane[p].queue \ {t}, term |-> t]
      <3>1. /\ lane' = [lane EXCEPT ![p] = new] /\ t \in lane[p].queue
            /\ scored' = scored /\ did' = did
        BY <2>2 DEF C!Take
      <3>2. new \in Lanes /\ new.queue = lane[p].queue \ {t} /\ new.term = t
        BY <1>2 DEF Lanes
      <3> HIDE DEF new
      <3>3. \A u \in CorpusTerm : Finished(u) => Finished(u)'
        BY <3>1 DEF Finished
      <3>4. \A u \in CorpusTerm : <<p, "score", u>> \in did.once => Finished(u) /\ u \notin lane[p].queue
        BY <1>3 DEF ScoredOnce
      <3>5. ScoredOnce' /\ lane' \in [Process -> Lanes]
        BY <1>3, <3>1, <3>2, <3>3, <3>4, LaneStep
      <3> QED
        BY <3>1, <3>5
    <2>3. CASE C!ScoreFails(p)
      <3> DEFINE new == [lane[p] EXCEPT !.term = None]
      <3>1. /\ lane' = [lane EXCEPT ![p].term = None] /\ scored' = scored /\ did' = did
        BY <2>3 DEF C!ScoreFails
      <3>2. new \in Lanes /\ new.queue = lane[p].queue /\ new.term = None
        BY <1>2 DEF Lanes
      <3>3. lane' = [lane EXCEPT ![p] = new]
        BY <3>1, <1>2
      <3> HIDE DEF new
      <3>4. \A u \in CorpusTerm : Finished(u) => Finished(u)'
        BY <3>1 DEF Finished
      <3>5. \A u \in CorpusTerm : <<p, "score", u>> \in did.once => Finished(u) /\ u \notin lane[p].queue
        BY <1>3 DEF ScoredOnce
      <3>6. None \notin CorpusTerm /\ lane[p].queue \subseteq CorpusTerm
        BY <1>2 DEF Mining, Lanes
      <3>7. ScoredOnce' /\ lane' \in [Process -> Lanes]
        BY <1>3, <3>1, <3>2, <3>3, <3>4, <3>5, <3>6, LaneStep
      <3> QED
        BY <1>2, <3>1, <3>7
    <2>4. ASSUME NEW found \in BOOLEAN, NEW counted \in BOOLEAN, C!Score(p, found, counted)
          PROVE  /\ ScoredOnce' /\ lane' \in [Process -> Lanes] /\ DOMAIN scored' = CorpusTerm
                 /\ DOMAIN did' = {"once", "again"} /\ did'.again = {}
                 /\ \A k, t : <<k, "ask", t>> \in did'.once => <<k, "ask", t>> \in did.once
      <3> DEFINE new == [lane[p] EXCEPT !.term = None]
                 done == C!Competition(found, counted)
      <3>0. lane[p].term \in CorpusTerm
        BY <2>4, <1>2 DEF C!Score, Lanes
      <3> PICK t \in CorpusTerm : t = lane[p].term
        BY <3>0
      <3>1. /\ t # None /\ scored' = [scored EXCEPT ![t] = done] /\ C!Done(p, "score", t)
            /\ lane' = [lane EXCEPT ![p].term = None] /\ (counted => found)
        BY <2>4 DEF C!Score
      <3>2. new \in Lanes /\ new.queue = lane[p].queue /\ new.term = None
        BY <1>2, <3>1 DEF Lanes
      <3>3. lane' = [lane EXCEPT ![p] = new]
        BY <3>1, <1>2
      <3>4. t \notin lane[p].queue /\ <<p, "score", t>> \notin did.once
        BY <1>3, <3>2 DEF ScoredOnce
      <3> HIDE DEF new
      <3>5. did' = [did EXCEPT !.once = did.once \union {<<p, "score", t>>}]
        BY <3>1, <3>4 DEF C!Done
      <3>6. /\ DOMAIN did' = {"once", "again"} /\ did'.again = {}
            /\ did'.once = did.once \union {<<p, "score", t>>}
        BY <3>5, <1>2
      <3>7. done # None /\ ~C!WithoutBasis(done) /\ ~C!WithoutApps(done)
        <4>1. done \in Competitions
          BY DEF C!Competition, Competitions
        <4>2. ~C!WithoutBasis(done) /\ ~C!WithoutApps(done)
          BY DEF C!Competition, C!WithoutBasis, C!WithoutApps
        <4> QED
          BY <4>1, <4>2 DEF Mining
      <3> HIDE DEF done
      <3>8. scored'[t] = done /\ \A u \in CorpusTerm \ {t} : scored'[u] = scored[u]
        BY <3>1, <3>2, <1>2
      <3>9. Finished(t)' /\ \A u \in CorpusTerm : Finished(u) => Finished(u)'
        <4>1. Finished(t)'
          BY <3>7, <3>8 DEF Finished
        <4>2. ASSUME NEW u \in CorpusTerm \ {t}, Finished(u) PROVE Finished(u)'
          BY <3>8, <4>2 DEF Finished
        <4>3. ASSUME NEW u \in CorpusTerm, u = t PROVE Finished(u)'
          BY <4>1, <4>3 DEF Finished
        <4> QED
          BY <4>1, <4>2, <4>3
      <3>10. \A u \in CorpusTerm : <<p, "score", u>> \in did'.once =>
                Finished(u)' /\ u \notin new.queue /\ u # new.term
        <4> TAKE u \in CorpusTerm
        <4>1. u # None
          BY DEF Mining
        <4>2. CASE <<p, "score", u>> \in did.once
          BY <4>1, <4>2, <1>3, <3>2, <3>9 DEF ScoredOnce
        <4>3. CASE u = t
          <5>1. Finished(u)'
            BY <4>3, <3>2, <3>9
          <5> QED
            BY <4>1, <4>3, <5>1, <3>2, <3>4
        <4> QED
          BY <4>2, <4>3, <3>6
      <3>11. \A q \in Process \ {p}, u \in CorpusTerm :
                <<q, "score", u>> \in did'.once => <<q, "score", u>> \in did.once
        BY <3>6
      <3>12. new.term \notin new.queue
        BY <3>2, <1>2 DEF Mining, Lanes
      <3>13. ScoredOnce' /\ lane' \in [Process -> Lanes]
        BY <1>3, <3>2, <3>3, <3>9, <3>10, <3>11, <3>12, LaneStep
      <3> QED
        BY <1>2, <3>1, <3>6, <3>13
    <2> QED
      BY <1>2, <2>1, <2>2, <2>3, <2>4
  <1>5. CorpusTypes'
    BY <1>1, <1>4 DEF CorpusInv, CorpusTypes
  <1>6. AskedOnce'
    <2>1. ASSUME NEW k \in Keeper PROVE Asking(k, keeper[k], did'.once)
      <3>1. Asking(k, keeper[k], did.once)
        BY DEF CorpusInv, AskedOnce
      <3> QED
        BY <3>1, <1>4 DEF Asking
    <2>2. \A k \in Keeper, t \in CorpusTerm : <<k, "ask", t>> \in did'.once => contains[t] # {}
      BY <1>4 DEF CorpusInv, AskedOnce
    <2> QED
      BY <1>1, <2>1, <2>2 DEF AskedOnce, Asking
  <1>7. Offered' /\ InOrder'
    BY <1>1 DEF CorpusInv, Offered, InOrder
  <1>8. Waiting'
    BY <1>1 DEF CorpusInv, Waiting, IsDue, Behind
  <1> QED
    BY <1>4, <1>5, <1>6, <1>7, <1>8 DEF CorpusInv

\* A round in which nothing is due does not bear on the estimates.
LEMMA QuietRound ==
    ASSUME CorpusTypes, InOrder, Waiting, NEW k \in Keeper, NEW new \in Rounds,
           keeper' = [keeper EXCEPT ![k] = new], new.at # "estimate",
           keeper[k].at = "estimate" => keeper[k].work = <<>>,
           estimate' = estimate, oldest' = oldest, turns' = turns,
           \A t \in CorpusTerm : noticed[t] > 0 => noticed'[t] > 0
    PROVE  InOrder' /\ Waiting'
  <1>1. keeper'[k] = new /\ \A j \in Keeper \ {k} : keeper'[j] = keeper[j]
    BY RoundStep
  <1>2. \A t : \A j \in Keeper : IsDue(j, t)' <=> IsDue(j, t)
    <2>1. ASSUME NEW t PROVE ~IsDue(k, t) /\ ~IsDue(k, t)'
      BY <1>1 DEF IsDue
    <2>2. ASSUME NEW j \in Keeper \ {k}, NEW t PROVE IsDue(j, t)' <=> IsDue(j, t)
      BY <1>1 DEF IsDue
    <2> QED
      BY <2>1, <2>2
  <1>3. InOrder'
    <2>1. ASSUME NEW j \in Keeper \ {k}, NEW n \in DOMAIN keeper[j].work
          PROVE  keeper[j].work[n].term \in CorpusTerm
      BY RoundTerms DEF CorpusTypes
    <2>2. ASSUME NEW j \in Keeper, keeper'[j].at = "estimate", NEW n \in DOMAIN keeper'[j].work
          PROVE  noticed'[keeper'[j].work[n].term] > 0
      <3>1. j \in Keeper \ {k} /\ keeper'[j] = keeper[j]
        BY <1>1, <2>2
      <3> QED
        BY <2>1, <2>2, <3>1 DEF InOrder
    <2> QED
      BY <2>2 DEF InOrder
  <1>4. \A t, u \in CorpusTerm : Behind(t, u)' <=> Behind(t, u)
    BY DEF Behind
  <1>5. \A t \in CorpusTerm : turns.ahead[t] \subseteq CorpusTerm
    BY DEF CorpusTypes
  <1>6. \A j \in Keeper : keeper'[j].at = "estimate" => keeper[j].at = "estimate"
    BY <1>1
  <1>7. Waiting'
    <2>1. ASSUME NEW t \in CorpusTerm, turns.ahead[t] # {}
          PROVE  /\ noticed'[t] > 0 /\ \A j \in Keeper : ~IsDue(j, t)'
                 /\ \A u \in turns.ahead[t] :
                        u # t /\ ((\E j \in Keeper : IsDue(j, u)') \/ Behind(t, u)')
      BY <2>1, <1>2, <1>4, <1>5 DEF Waiting
    <2>2. (\E t \in CorpusTerm : turns.ahead[t] # {}) =>
            \A i, j \in Keeper : keeper'[i].at = "estimate" /\ keeper'[j].at = "estimate" => i = j
      BY <1>6 DEF Waiting
    <2> QED
      BY <2>1, <2>2 DEF Waiting
  <1> QED
    BY <1>3, <1>7

\* Terms in some order.
LEMMA Numbering ==
    ASSUME NEW S, IsFiniteSet(S)
    PROVE  /\ C!Cardinality(S) \in Nat
           /\ C!SetToSeq(S) \in [1 .. C!Cardinality(S) -> S]
           /\ \A n, m \in 1 .. C!Cardinality(S) : C!SetToSeq(S)[n] = C!SetToSeq(S)[m] => n = m
  <1>1. C!Cardinality(S) = Cardinality(S)
    BY DEF C!Cardinality, Cardinality
  <1>2. Cardinality(S) \in Nat /\ ExistsBijection(1 .. Cardinality(S), S)
    <2>1. PICK n \in Nat : ExistsBijection(1 .. n, S)
      BY FS_NatBijection
    <2> QED
      BY <2>1, FS_CountingElements
  <1>3. PICK f \in [1 .. C!Cardinality(S) -> S] :
            \A n, m \in 1 .. C!Cardinality(S) : f[n] = f[m] => n = m
    BY <1>1, <1>2 DEF ExistsBijection, Bijection, Injection, IsInjective
  <1> QED
    BY <1>1, <1>2, <1>3 DEF C!SetToSeq, C!IsInjective

\* A round of questions begins with the terms not asked for.
LEMMA MinedRound ==
    ASSUME Mining, AskedOnce, NEW k \in Keeper
    PROVE  LET S == C!Unasked
               new == [at |-> "validate",
                       work |-> [n \in 1 .. C!Cardinality(S) |-> [term |-> C!SetToSeq(S)[n]]]] IN
           new \in Rounds /\ Asking(k, new, did.once)
  <1> DEFINE S == C!Unasked
             questions == [n \in 1 .. C!Cardinality(S) |-> [term |-> C!SetToSeq(S)[n]]]
             new == [at |-> "validate", work |-> questions]
  <1>1. S \subseteq CorpusTerm /\ IsFiniteSet(S) /\ \A t \in S : contains[t] = {}
    <2>1. S \subseteq CorpusTerm /\ \A t \in S : contains[t] = {}
      BY DEF C!Unasked, Mining
    <2> QED
      BY <2>1, FS_Subset DEF Mining
  <1> HIDE DEF S
  <1>2. /\ C!Cardinality(S) \in Nat
        /\ \A n \in 1 .. C!Cardinality(S) : C!SetToSeq(S)[n] \in S
        /\ \A n, m \in 1 .. C!Cardinality(S) : C!SetToSeq(S)[n] = C!SetToSeq(S)[m] => n = m
    BY <1>1, Numbering
  <1>3. DOMAIN questions = 1 .. C!Cardinality(S)
        /\ \A n \in DOMAIN questions : questions[n] \in Asks /\ questions[n].term = C!SetToSeq(S)[n]
    BY <1>1, <1>2 DEF Asks
  <1> HIDE DEF questions
  <1>4. questions \in Seq(Asks)
    <2>1. questions = [n \in 1 .. C!Cardinality(S) |-> questions[n]]
      BY <1>3 DEF questions
    <2> QED
      BY <1>2, <1>3, <2>1
  <1>5. new \in Rounds
    BY <1>4 DEF Rounds
  <1>6. \A n \in DOMAIN questions : <<k, "ask", questions[n].term>> \notin did.once
    BY <1>1, <1>2, <1>3 DEF AskedOnce
  <1>7. Asking(k, new, did.once)
    BY <1>2, <1>3, <1>6 DEF Asking
  <1> QED
    BY <1>5, <1>7 DEF S, questions

\* The first is asked for, and the rest is left.
LEMMA AskedNext ==
    ASSUME NEW k, NEW round \in Rounds, round.at \in {"validate", "confirm"}, round.work # <<>>,
           NEW once, Asking(k, round, once), NEW t, t = Head(round.work).term
    PROVE  /\ t \in CorpusTerm
           /\ round.at = "validate" => <<k, "ask", t>> \notin once
           /\ [at |-> "validate", work |-> Tail(round.work)] \in Rounds
           /\ Asking(k, [at |-> "validate", work |-> Tail(round.work)], once \union {<<k, "ask", t>>})
           /\ [at |-> "confirm", work |-> round.work] \in Rounds
           /\ round.at = "validate" =>
                Asking(k, [at |-> "confirm", work |-> round.work], once \union {<<k, "ask", t>>})
  <1> DEFINE then == once \union {<<k, "ask", t>>}
             rest == Tail(round.work)
             new == [at |-> "validate", work |-> rest]
             hold == [at |-> "confirm", work |-> round.work]
  <1>1. round.work \in Seq(Asks) /\ Len(round.work) \in Nat /\ Len(round.work) > 0
        /\ DOMAIN round.work = 1 .. Len(round.work)
    BY RoundTypes
  <1>2. /\ \A n \in 1 .. Len(round.work) : round.work[n].term \in CorpusTerm
        /\ t = round.work[1].term /\ t \in CorpusTerm
    BY <1>1, RoundTerms
  <1>3. /\ rest \in Seq(Asks) /\ Len(rest) = Len(round.work) - 1 /\ DOMAIN rest = 1 .. Len(rest)
        /\ \A n \in 1 .. Len(rest) : rest[n] = round.work[n + 1]
    BY <1>1
  <1>4. new \in Rounds /\ hold \in Rounds
    BY <1>1, <1>3 DEF Rounds
  <1> HIDE DEF rest
  <1>5. \A n, m \in 1 .. Len(round.work) : round.work[n].term = round.work[m].term => n = m
    BY <1>1 DEF Asking
  <1>6. \A n \in 1 .. Len(round.work) :
            round.at = "validate" \/ n > 1 => <<k, "ask", round.work[n].term>> \notin once
    BY <1>1 DEF Asking
  <1>7. \A n \in 2 .. Len(round.work) : <<k, "ask", round.work[n].term>> \notin then
    <2> TAKE n \in 2 .. Len(round.work)
    <2>1. round.work[n].term # t
      BY <1>1, <1>2, <1>5
    <2> QED
      BY <1>1, <1>6, <2>1
  <1>8. Asking(k, new, then)
    <2>1. \A n, m \in 1 .. Len(rest) : rest[n].term = rest[m].term => n = m
      BY <1>1, <1>3, <1>5
    <2>2. \A n \in 1 .. Len(rest) : <<k, "ask", rest[n].term>> \notin then
      <3> TAKE n \in 1 .. Len(rest)
      <3>1. n + 1 \in 2 .. Len(round.work) /\ rest[n] = round.work[n + 1]
        BY <1>1, <1>3
      <3> QED
        BY <1>7, <3>1
    <2> HIDE DEF then
    <2> QED
      BY <2>1, <2>2, <1>3 DEF Asking
  <1>9. Asking(k, hold, then)
    <2> HIDE DEF then
    <2> QED
      BY <1>1, <1>5, <1>7 DEF Asking
  <1>10. round.at = "validate" => <<k, "ask", t>> \notin once
    BY <1>1, <1>2, <1>6
  <1> QED
    BY <1>2, <1>4, <1>8, <1>9, <1>10 DEF rest

\* What was not asked again is in the types.
LEMMA TypesKept ==
    ASSUME CorpusTypes, scored' = scored, estimate' = estimate, oldest' = oldest, turns' = turns,
           DOMAIN contains' = CorpusTerm, noticed' \in [CorpusTerm -> Nat],
           lane' \in [Process -> Lanes], keeper' \in [Keeper -> Rounds],
           DOMAIN did' = {"once", "again"}, did'.again = {}
    PROVE  CorpusTypes'
  BY DEF CorpusTypes

\* A pass is done, and a round of questions too.
LEMMA RoundEnds ==
    ASSUME Mining, CorpusInv, NEW k \in Keeper, C!EndPass(k) \/ C!EndValidation(k) PROVE CorpusInv'
  <1>1. /\ scored' = scored /\ noticed' = noticed /\ contains' = contains /\ estimate' = estimate
        /\ oldest' = oldest /\ lane' = lane /\ did' = did /\ turns' = turns /\ halfway' = halfway
        /\ keeper[k].work = <<>>
    BY DEF C!EndPass, C!EndValidation
  <1>2. CorpusTypes /\ ScoredOnce /\ AskedOnce /\ Offered /\ InOrder /\ Waiting
    BY DEF CorpusInv
  <1>3. \E new \in Rounds : /\ keeper' = [keeper EXCEPT ![k] = new] /\ new.at # "estimate"
                            /\ Asking(k, new, did.once)
    <2>1. CASE C!EndPass(k) /\ k \in Process
      <3> DEFINE S == C!Unasked
                 new == [at |-> "validate",
                         work |-> [n \in 1 .. C!Cardinality(S) |-> [term |-> C!SetToSeq(S)[n]]]]
      <3>1. keeper' = [keeper EXCEPT ![k] = new]
        BY <2>1 DEF C!EndPass
      <3>2. new \in Rounds /\ Asking(k, new, did.once)
        BY <1>2, MinedRound
      <3>3. new.at # "estimate"
        OBVIOUS
      <3> HIDE DEF new
      <3> QED
        BY <3>1, <3>2, <3>3
    <2>2. CASE ~(C!EndPass(k) /\ k \in Process)
      <3>1. keeper' = [keeper EXCEPT ![k] = C!Idle]
        BY <2>2 DEF C!EndPass, C!EndValidation
      <3> QED
        BY <3>1, IdleRound
    <2> QED
      BY <2>1, <2>2
  <1>4. PICK new \in Rounds : /\ keeper' = [keeper EXCEPT ![k] = new] /\ new.at # "estimate"
                              /\ Asking(k, new, did.once)
    BY <1>3
  <1>5. keeper' \in [Keeper -> Rounds]
    BY <1>2, <1>4, RoundStep
  <1>6. CorpusTypes'
    <2>1. /\ DOMAIN contains' = CorpusTerm /\ noticed' \in [CorpusTerm -> Nat]
          /\ DOMAIN did' = {"once", "again"} /\ did'.again = {} /\ lane' \in [Process -> Lanes]
      BY <1>1, <1>2 DEF CorpusTypes
    <2> QED
      BY <1>1, <1>2, <1>5, <2>1, TypesKept
  <1>7. ScoredOnce'
    BY <1>1, <1>2, LanesRest
  <1>8. AskedOnce'
    <2>1. \A t \in CorpusTerm : <<k, "ask", t>> \in did.once => contains[t] # {}
      BY <1>2 DEF AskedOnce
    <2> QED
      BY <1>1, <1>2, <1>4, <2>1, AskStep
  <1>9. Offered'
    BY <1>1, <1>2 DEF Offered
  <1>10. InOrder' /\ Waiting'
    BY <1>1, <1>2, <1>4, QuietRound
  <1> QED
    BY <1>6, <1>7, <1>8, <1>9, <1>10 DEF CorpusInv

\* The store is asked about the first.
LEMMA StoreAsked ==
    ASSUME Mining, CorpusInv, NEW k \in Keeper, NEW offered \in BOOLEAN, C!Ask(k, offered)
    PROVE  CorpusInv'
  <1>1. /\ scored' = scored /\ noticed' = noticed /\ estimate' = estimate
        /\ oldest' = oldest /\ lane' = lane /\ turns' = turns
        /\ keeper[k].at = "validate" /\ keeper[k].work # <<>>
    BY DEF C!Ask
  <1>2. CorpusTypes /\ ScoredOnce /\ AskedOnce /\ Offered /\ InOrder /\ Waiting
    BY DEF CorpusInv
  <1>3. keeper[k] \in Rounds /\ Asking(k, keeper[k], did.once)
    BY <1>2 DEF CorpusTypes, AskedOnce
  <1> DEFINE rest == [at |-> "validate", work |-> Tail(keeper[k].work)]
             hold == [at |-> "confirm", work |-> keeper[k].work]
             new == IF offered THEN hold ELSE rest
  <1>0. PICK t : t = Head(keeper[k].work).term
    OBVIOUS
  <1>4. /\ t \in CorpusTerm /\ t = Head(keeper[k].work).term /\ <<k, "ask", t>> \notin did.once
        /\ Asking(k, rest, did.once \union {<<k, "ask", t>>})
        /\ Asking(k, hold, did.once \union {<<k, "ask", t>>})
        /\ rest \in Rounds /\ hold \in Rounds
    BY <1>0, <1>1, <1>3, AskedNext
  <1>5. /\ contains' = [contains EXCEPT ![t] = contains[t] \union {offered}]
        /\ C!Done(k, "ask", t)
        /\ halfway' = IF offered THEN halfway \union {t} ELSE halfway
    BY <1>4 DEF C!Ask
  <1>6. keeper' = [keeper EXCEPT ![k] = new]
    <2>1. keeper' = [keeper EXCEPT ![k] = IF offered THEN [keeper[k] EXCEPT !.at = "confirm"]
                                          ELSE [keeper[k] EXCEPT !.work = Tail(keeper[k].work)]]
      BY DEF C!Ask
    <2>2. PICK w : keeper[k] = [at |-> "validate", work |-> w]
      BY <1>1, <1>3 DEF Rounds, C!Idle
    <2>3. keeper[k].work = w
      BY <2>2
    <2>4. hold = [at |-> "confirm", work |-> w] /\ rest = [at |-> "validate", work |-> Tail(w)]
      BY <2>3
    <2> HIDE DEF hold, rest
    <2>5. [keeper[k] EXCEPT !.at = "confirm"] = hold
      BY <2>2, <2>4
    <2>6. [keeper[k] EXCEPT !.work = Tail(keeper[k].work)] = rest
      <3>1. PICK tail : tail = Tail(keeper[k].work)
        OBVIOUS
      <3>2. rest = [at |-> "validate", work |-> tail]
        BY <2>3, <2>4, <3>1
      <3>3. [keeper[k] EXCEPT !.work = tail] = rest
        BY <2>2, <3>2
      <3> QED
        BY <3>1, <3>3
    <2> QED
      BY <2>1, <2>5, <2>6
  <1>7. /\ new \in Rounds /\ new.at # "estimate" /\ Asking(k, new, did.once \union {<<k, "ask", t>>})
    BY <1>4
  <1> HIDE DEF new, rest, hold
  <1>8. did' = [did EXCEPT !.once = did.once \union {<<k, "ask", t>>}]
    BY <1>4, <1>5 DEF C!Done
  <1>9. /\ DOMAIN did' = {"once", "again"} /\ did'.again = {}
        /\ did'.once = did.once \union {<<k, "ask", t>>}
    BY <1>2, <1>8 DEF CorpusTypes
  <1>10. /\ DOMAIN contains' = CorpusTerm /\ contains'[t] = contains[t] \union {offered}
         /\ \A u \in CorpusTerm \ {t} : contains'[u] = contains[u]
    BY <1>2, <1>4, <1>5 DEF CorpusTypes
  <1>11. keeper' \in [Keeper -> Rounds]
    BY <1>2, <1>6, <1>7, RoundStep
  <1>12. CorpusTypes'
    <2>1. noticed' \in [CorpusTerm -> Nat] /\ lane' \in [Process -> Lanes]
      BY <1>1, <1>2 DEF CorpusTypes
    <2> QED
      BY <1>1, <1>2, <1>9, <1>10, <1>11, <2>1, TypesKept
  <1>13. ScoredOnce'
    <2>1. \A p \in Process, u \in CorpusTerm :
            <<p, "score", u>> \in did'.once => <<p, "score", u>> \in did.once
      BY <1>9
    <2> QED
      BY <1>1, <1>2, <2>1, LanesRest
  <1>14. AskedOnce'
    <2>1. \A u \in CorpusTerm : contains[u] # {} => contains'[u] # {}
      BY <1>10
    <2>2. \A j \in Keeper \ {k}, u \in CorpusTerm :
            <<j, "ask", u>> \in did'.once => <<j, "ask", u>> \in did.once
      BY <1>9
    <2>3. \A u \in CorpusTerm : <<k, "ask", u>> \in did'.once => contains'[u] # {}
      <3> TAKE u \in CorpusTerm
      <3>1. CASE u = t
        BY <3>1, <1>10
      <3>2. CASE u # t
        BY <3>2, <1>2, <1>9, <1>10 DEF AskedOnce
      <3> QED
        BY <3>1, <3>2
    <2>4. Asking(k, new, did'.once)
      BY <1>7, <1>9
    <2> QED
      BY <1>2, <1>6, <1>7, <2>1, <2>2, <2>3, <2>4, AskStep
  <1>15. Offered'
    <2>1. ASSUME NEW u \in CorpusTerm \ {t}, TRUE \in contains'[u] PROVE noticed'[u] > 0 \/ u \in halfway'
      BY <2>1, <1>1, <1>2, <1>5, <1>10 DEF Offered
    <2>2. ASSUME TRUE \in contains'[t] PROVE noticed'[t] > 0 \/ t \in halfway'
      <3>1. CASE offered
        BY <3>1, <1>5
      <3>2. CASE ~offered
        <4>1. TRUE \in contains[t]
          BY <2>2, <3>2, <1>10
        <4> QED
          BY <4>1, <3>2, <1>1, <1>2, <1>4, <1>5 DEF Offered
      <3> QED
        BY <3>1, <3>2
    <2> QED
      BY <2>1, <2>2 DEF Offered
  <1>16. InOrder' /\ Waiting'
    BY <1>1, <1>2, <1>6, <1>7, QuietRound
  <1> QED
    BY <1>12, <1>13, <1>14, <1>15, <1>16 DEF CorpusInv

\* The term that was offered counts as seen.
LEMMA TermConfirmed ==
    ASSUME Mining, CorpusInv, NEW k \in Keeper, C!Confirm(k) PROVE CorpusInv'
  <1>1. /\ scored' = scored /\ contains' = contains /\ estimate' = estimate
        /\ oldest' = oldest /\ lane' = lane /\ did' = did /\ turns' = turns
        /\ keeper[k].at = "confirm"
    BY DEF C!Confirm
  <1>2. CorpusTypes /\ ScoredOnce /\ AskedOnce /\ Offered /\ InOrder /\ Waiting
    BY DEF CorpusInv
  <1>3. keeper[k] \in Rounds /\ Asking(k, keeper[k], did.once) /\ keeper[k].work # <<>>
    BY <1>1, <1>2 DEF CorpusTypes, AskedOnce, Asking
  <1> DEFINE rest == [at |-> "validate", work |-> Tail(keeper[k].work)]
  <1>0. PICK t : t = Head(keeper[k].work).term
    OBVIOUS
  <1>4. t \in CorpusTerm /\ rest \in Rounds /\ Asking(k, rest, did.once \union {<<k, "ask", t>>})
    BY <1>0, <1>1, <1>3, AskedNext
  <1>5. /\ noticed' = [noticed EXCEPT ![t] = IF noticed[t] < MaxSuggestions THEN noticed[t] + 1
                                             ELSE noticed[t]]
        /\ halfway' = halfway \ {t} /\ keeper' = [keeper EXCEPT ![k] = rest]
    BY <1>0 DEF C!Confirm
  <1>6. Asking(k, rest, did.once) /\ rest.at # "estimate"
    BY <1>4 DEF Asking
  <1> HIDE DEF rest
  <1>7. /\ noticed' \in [CorpusTerm -> Nat] /\ noticed'[t] > 0
        /\ \A u \in CorpusTerm \ {t} : noticed'[u] = noticed[u]
    <2>1. noticed \in [CorpusTerm -> Nat] /\ MaxSuggestions \in Nat \ {0}
      BY <1>2 DEF CorpusTypes, Mining
    <2> QED
      BY <1>4, <1>5, <2>1
  <1>8. keeper' \in [Keeper -> Rounds]
    BY <1>2, <1>4, <1>5, RoundStep
  <1>9. CorpusTypes'
    <2>1. /\ DOMAIN contains' = CorpusTerm /\ lane' \in [Process -> Lanes]
          /\ DOMAIN did' = {"once", "again"} /\ did'.again = {}
      BY <1>1, <1>2 DEF CorpusTypes
    <2> QED
      BY <1>1, <1>2, <1>7, <1>8, <2>1, TypesKept
  <1>10. ScoredOnce'
    BY <1>1, <1>2, LanesRest
  <1>11. AskedOnce'
    <2>1. \A u \in CorpusTerm : <<k, "ask", u>> \in did.once => contains[u] # {}
      BY <1>2 DEF AskedOnce
    <2> QED
      BY <1>1, <1>2, <1>4, <1>5, <1>6, <2>1, AskStep
  <1>12. Offered'
    BY <1>1, <1>2, <1>5, <1>7 DEF Offered
  <1>13. InOrder' /\ Waiting'
    <2>1. \A u \in CorpusTerm : noticed[u] > 0 => noticed'[u] > 0
      BY <1>7
    <2> QED
      BY <1>1, <1>2, <1>4, <1>5, <1>6, <2>1, QuietRound
  <1> QED
    BY <1>9, <1>10, <1>11, <1>12, <1>13 DEF CorpusInv

\* A round is cut short, or a process dies in one.
LEMMA RoundCut ==
    ASSUME Mining, CorpusInv, NEW k, \/ k \in Keeper /\ C!Cut(k)
                                     \/ k \in Process /\ C!Die(k)
    PROVE  CorpusInv'
  <1>1. /\ scored' = scored /\ noticed' = noticed /\ contains' = contains /\ estimate' = estimate
        /\ oldest' = oldest /\ did' = did /\ halfway' = halfway
        /\ keeper' = [keeper EXCEPT ![k] = C!Idle] /\ turns' = [turns EXCEPT !.ahead = C!Nobody]
    BY DEF C!Cut, C!Die
  <1>2. CorpusTypes /\ ScoredOnce /\ AskedOnce /\ Offered /\ InOrder /\ Waiting
    BY DEF CorpusInv
  <1>3. /\ DOMAIN turns' = {"ahead", "overtaken"} /\ ~turns'.overtaken
        /\ turns'.ahead \in [CorpusTerm -> SUBSET CorpusTerm]
        /\ \A t \in CorpusTerm : turns'.ahead[t] = {}
    <2>1. DOMAIN turns = {"ahead", "overtaken"} /\ ~turns.overtaken
      BY <1>2 DEF CorpusTypes
    <2>2. /\ DOMAIN turns' = {"ahead", "overtaken"} /\ turns'.overtaken = turns.overtaken
          /\ turns'.ahead = C!Nobody
      BY <1>1, <2>1
    <2> QED
      BY <2>1, <2>2 DEF C!Nobody
  <1>4. /\ keeper' \in [Keeper -> Rounds]
        /\ \A j \in Keeper : keeper'[j] = keeper[j] \/ keeper'[j] = C!Idle
    BY <1>1, <1>2, IdleRound DEF CorpusTypes
  <1>5. ScoredOnce' /\ lane' \in [Process -> Lanes]
    <2>1. CASE lane' = lane
      BY <1>1, <1>2, <2>1, LanesRest
    <2>2. CASE k \in Process /\ C!Die(k)
      <3>1. lane' = [lane EXCEPT ![k] = C!NoLane]
        BY <2>2 DEF C!Die
      <3>2. /\ C!NoLane \in Lanes /\ C!NoLane.term = None /\ C!NoLane.queue = {}
        BY DEF C!NoLane, Lanes
      <3>3. \A t \in CorpusTerm : t # None /\ (Finished(t) => Finished(t)')
        BY <1>1 DEF Mining, Finished
      <3>4. \A t \in CorpusTerm : <<k, "score", t>> \in did.once => Finished(t)
        BY <1>2, <2>2 DEF ScoredOnce
      <3> QED
        BY <1>1, <1>2, <2>2, <3>1, <3>2, <3>3, <3>4, LaneStep
    <2> QED
      BY <2>1, <2>2 DEF C!Cut
  <1>6. CorpusTypes'
    BY <1>1, <1>2, <1>3, <1>4, <1>5 DEF CorpusTypes
  <1>7. AskedOnce'
    <2>1. ASSUME NEW j \in Keeper PROVE Asking(j, keeper'[j], did.once)
      BY <1>2, <1>4, IdleRound DEF AskedOnce
    <2>2. \A j \in Keeper, t \in CorpusTerm : <<j, "ask", t>> \in did.once => contains[t] # {}
      BY <1>2 DEF AskedOnce
    <2> QED
      BY <1>1, <2>1, <2>2 DEF AskedOnce, Asking
  <1>8. Offered'
    BY <1>1, <1>2 DEF Offered
  <1>9. InOrder'
    BY <1>1, <1>2, <1>4, IdleRound DEF InOrder
  <1>10. Waiting'
    BY <1>3 DEF Waiting
  <1> QED
    BY <1>5, <1>6, <1>7, <1>8, <1>9, <1>10 DEF CorpusInv

\* Removing an element closes the gap.
LEMMA RemoveAtIs ==
    ASSUME NEW S, NEW s \in Seq(S), NEW n \in 1 .. Len(s)
    PROVE  /\ C!RemoveAt(s, n) \in Seq(S) /\ Len(C!RemoveAt(s, n)) = Len(s) - 1
           /\ \A i \in 1 .. Len(s) - 1 :
                C!RemoveAt(s, n)[i] = IF i < n THEN s[i] ELSE s[i + 1]
  <1> DEFINE front == SubSeq(s, 1, n - 1)
             back == SubSeq(s, n + 1, Len(s))
  <1>1. /\ front \in Seq(S) /\ Len(front) = n - 1
        /\ \A i \in 1 .. n - 1 : front[i] = s[i]
    OBVIOUS
  <1>2. /\ back \in Seq(S) /\ Len(back) = Len(s) - n
        /\ \A i \in 1 .. Len(s) - n : back[i] = s[i + n]
    OBVIOUS
  <1>3. C!RemoveAt(s, n) = front \o back
    BY DEF C!RemoveAt
  <1> HIDE DEF front, back
  <1>4. front \o back \in Seq(S) /\ Len(front \o back) = Len(s) - 1
    BY <1>1, <1>2
  <1>5. \A i \in 1 .. Len(s) - 1 : (front \o back)[i] = IF i < n THEN s[i] ELSE s[i + 1]
    <2> TAKE i \in 1 .. Len(s) - 1
    <2>1. CASE i < n
      BY <2>1, <1>1, <1>2
    <2>2. CASE ~(i < n)
      <3>1. (front \o back)[i] = back[i - (n - 1)]
        BY <2>2, <1>1, <1>2
      <3>2. i - (n - 1) \in 1 .. Len(s) - n
        BY <2>2
      <3>3. back[i - (n - 1)] = s[i - (n - 1) + n] /\ i - (n - 1) + n = i + 1
        BY <3>2, <1>2
      <3> QED
        BY <3>1, <3>3, <2>2
    <2> QED
      BY <2>1, <2>2
  <1> QED
    BY <1>3, <1>4, <1>5

\* The terms are those of `oldest` but for one, and that one at the end.
Restamped(s, t) ==
    /\ s \in Seq(CorpusTerm) /\ Len(s) > 0 /\ s[Len(s)] = t
    /\ \E i \in Nat : \A n \in 1 .. Len(s) - 1 :
        /\ (IF n < i THEN n ELSE n + 1) \in 1 .. Len(oldest)
        /\ s[n] = oldest[IF n < i THEN n ELSE n + 1] /\ s[n] # t
    /\ \A n \in DOMAIN oldest : oldest[n] # t => \E m \in 1 .. Len(s) - 1 : s[m] = oldest[n]

\* What is stamped goes to the end, once; the others keep their order.
LEMMA StampedIs ==
    ASSUME oldest \in Seq(CorpusTerm), NEW t \in CorpusTerm, NEW s, s = C!Stamped(t),
           \A n, m \in DOMAIN oldest : oldest[n] = oldest[m] => n = m
    PROVE  Restamped(s, t)
  <1> DEFINE of == {n \in DOMAIN oldest : oldest[n] = t}
             i == CHOOSE n \in of : TRUE
             others == IF of = {} THEN oldest ELSE C!RemoveAt(oldest, i)
  <1>0. s = Append(others, t)
    BY DEF C!Stamped
  <1>1. DOMAIN oldest = 1 .. Len(oldest) /\ Len(oldest) \in Nat
    OBVIOUS
  <1> SUFFICES
        /\ others \in Seq(CorpusTerm)
        /\ \E c \in Nat : \A n \in 1 .. Len(others) :
            /\ (IF n < c THEN n ELSE n + 1) \in 1 .. Len(oldest)
            /\ others[n] = oldest[IF n < c THEN n ELSE n + 1] /\ others[n] # t
        /\ \A n \in DOMAIN oldest : oldest[n] # t => \E m \in 1 .. Len(others) : others[m] = oldest[n]
    <2> HIDE DEF others
    <2>1. ASSUME others \in Seq(CorpusTerm)
          PROVE  /\ s \in Seq(CorpusTerm) /\ Len(s) = Len(others) + 1 /\ Len(others) \in Nat
                 /\ s[Len(s)] = t /\ \A n \in 1 .. Len(others) : s[n] = others[n]
      BY <1>0, <2>1
    <2>2. ASSUME others \in Seq(CorpusTerm) PROVE 1 .. Len(s) - 1 = 1 .. Len(others) /\ Len(s) > 0
      BY <2>1, <2>2
    <2> HIDE DEF of, i
    <2>3. /\ s \in Seq(CorpusTerm) /\ s[Len(s)] = t /\ Len(s) > 0
          /\ 1 .. Len(s) - 1 = 1 .. Len(others) /\ \A n \in 1 .. Len(others) : s[n] = others[n]
      BY <2>1, <2>2
    <2>4. PICK c \in Nat : \A n \in 1 .. Len(others) :
            /\ (IF n < c THEN n ELSE n + 1) \in 1 .. Len(oldest)
            /\ others[n] = oldest[IF n < c THEN n ELSE n + 1] /\ others[n] # t
      OBVIOUS
    <2>5. \A n \in 1 .. Len(s) - 1 :
            /\ (IF n < c THEN n ELSE n + 1) \in 1 .. Len(oldest)
            /\ s[n] = oldest[IF n < c THEN n ELSE n + 1] /\ s[n] # t
      BY <2>3, <2>4
    <2>6. \A n \in DOMAIN oldest : oldest[n] # t => \E m \in 1 .. Len(s) - 1 : s[m] = oldest[n]
      BY <2>3
    <2> QED
      BY <2>3, <2>5, <2>6 DEF Restamped
  <1>2. CASE of = {}
    <2>1. others = oldest
      BY <1>2
    <2> HIDE DEF others
    <2>2. Len(oldest) + 1 \in Nat /\ \A n \in 1 .. Len(oldest) : n < Len(oldest) + 1
      BY <1>1
    <2>3. \A n \in 1 .. Len(oldest) : oldest[n] # t
      BY <1>1, <1>2
    <2> QED
      BY <1>1, <2>1, <2>2, <2>3
  <1>3. CASE of # {}
    <2>1. i \in 1 .. Len(oldest) /\ oldest[i] = t
      BY <1>1, <1>3
    <2>2. others = C!RemoveAt(oldest, i)
      BY <1>3
    <2> HIDE DEF others, i, of
    <2>3. /\ others \in Seq(CorpusTerm) /\ Len(others) = Len(oldest) - 1
          /\ \A n \in 1 .. Len(oldest) - 1 : others[n] = IF n < i THEN oldest[n] ELSE oldest[n + 1]
      BY <2>1, <2>2, RemoveAtIs
    <2>4. \A n \in 1 .. Len(oldest) : n # i => oldest[n] # t
      BY <1>1, <2>1
    <2>5. ASSUME NEW n \in 1 .. Len(others)
          PROVE  /\ (IF n < i THEN n ELSE n + 1) \in 1 .. Len(oldest)
                 /\ others[n] = oldest[IF n < i THEN n ELSE n + 1] /\ others[n] # t
      <3>1. (IF n < i THEN n ELSE n + 1) \in 1 .. Len(oldest) /\ (IF n < i THEN n ELSE n + 1) # i
        BY <1>1, <2>1, <2>3
      <3>2. others[n] = oldest[IF n < i THEN n ELSE n + 1]
        BY <1>1, <2>1, <2>3
      <3> QED
        BY <3>1, <3>2, <2>4
    <2>6. ASSUME NEW n \in 1 .. Len(oldest), oldest[n] # t
          PROVE  \E m \in 1 .. Len(others) : others[m] = oldest[n]
      <3>1. CASE n < i
        <4>1. n \in 1 .. Len(others) /\ others[n] = oldest[n]
          BY <1>1, <2>1, <2>3, <3>1
        <4> QED
          BY <4>1
      <3>2. CASE n > i
        <4>1. n - 1 \in 1 .. Len(others) /\ others[n - 1] = oldest[n]
          BY <1>1, <2>1, <2>3, <3>2
        <4> QED
          BY <4>1
      <3> QED
        BY <1>1, <2>1, <2>6, <3>1, <3>2
    <2>7. i \in Nat
      BY <1>1, <2>1
    <2> QED
      BY <1>1, <2>3, <2>5, <2>6, <2>7
  <1> QED
    BY <1>2, <1>3

\* So whoever is stamped stands behind the others.
LEMMA StampedLast ==
    ASSUME CorpusTypes, InOrder, NEW t \in CorpusTerm, oldest' = C!Stamped(t)
    PROVE  /\ oldest' \in Seq(CorpusTerm)
           /\ \A n, m \in DOMAIN oldest' : oldest'[n] = oldest'[m] => n = m
           /\ \A u \in CorpusTerm : (\E n \in DOMAIN oldest' : oldest'[n] = u)
                                        <=> u = t \/ \E n \in DOMAIN oldest : oldest[n] = u
           /\ \A u \in CorpusTerm \ {t} : \A n, m \in DOMAIN oldest' :
                oldest'[n] = u /\ oldest'[m] = t => n < m
           /\ \A u, v \in CorpusTerm \ {t} :
                (\A n, m \in DOMAIN oldest : oldest[n] = u /\ oldest[m] = v => n < m) =>
                    \A n, m \in DOMAIN oldest' : oldest'[n] = u /\ oldest'[m] = v => n < m
  <1> DEFINE z == Len(oldest')
  <1> PICK s : s = C!Stamped(t)
    OBVIOUS
  <1>1. /\ oldest \in Seq(CorpusTerm) /\ DOMAIN oldest = 1 .. Len(oldest) /\ Len(oldest) \in Nat
        /\ \A n, m \in 1 .. Len(oldest) : oldest[n] = oldest[m] => n = m
    BY DEF CorpusTypes, InOrder
  <1>9. oldest' = s
    OBVIOUS
  <1>2. /\ s \in Seq(CorpusTerm) /\ z > 0 /\ s[z] = t
        /\ \E i \in Nat : \A n \in 1 .. z - 1 :
            /\ (IF n < i THEN n ELSE n + 1) \in 1 .. Len(oldest)
            /\ s[n] = oldest[IF n < i THEN n ELSE n + 1] /\ s[n] # t
        /\ \A n \in 1 .. Len(oldest) : oldest[n] # t => \E m \in 1 .. z - 1 : s[m] = oldest[n]
    <2>1. Restamped(s, t)
      <3>1. \A n, m \in DOMAIN oldest : oldest[n] = oldest[m] => n = m
        BY DEF InOrder
      <3> QED
        BY <1>1, <3>1, StampedIs
    <2>2. z = Len(s) /\ DOMAIN oldest = 1 .. Len(oldest)
      BY <1>1, <1>9
    <2> HIDE DEF z
    <2> QED
      BY <2>1, <2>2 DEF Restamped
  <1>3. DOMAIN s = 1 .. z /\ z \in Nat
    BY <1>2, <1>9
  <1> HIDE DEF z
  <1>4. PICK i \in Nat : \A n \in 1 .. z - 1 :
            /\ (IF n < i THEN n ELSE n + 1) \in 1 .. Len(oldest)
            /\ s[n] = oldest[IF n < i THEN n ELSE n + 1] /\ s[n] # t
    BY <1>2
  <1>5. \A n, m \in 1 .. z : s[n] = s[m] => n = m
    <2>1. ASSUME NEW n \in 1 .. z - 1, NEW m \in 1 .. z - 1, s[n] = s[m] PROVE n = m
      <3>1. (IF n < i THEN n ELSE n + 1) = (IF m < i THEN m ELSE m + 1)
        BY <1>1, <1>4, <2>1
      <3> QED
        BY <3>1, <1>3
    <2>2. \A n \in 1 .. z : n = z \/ n \in 1 .. z - 1
      BY <1>3
    <2> QED
      BY <1>2, <1>4, <2>1, <2>2
  <1>6. ASSUME NEW u \in CorpusTerm
        PROVE  (\E n \in 1 .. z : s[n] = u) <=> u = t \/ \E n \in 1 .. Len(oldest) : oldest[n] = u
    <2>1. \A n \in 1 .. z : n = z \/ n \in 1 .. z - 1
      BY <1>3
    <2>2. z \in 1 .. z /\ \A n \in 1 .. z - 1 : n \in 1 .. z
      BY <1>2, <1>3
    <2>3. ASSUME NEW n \in 1 .. z, s[n] = u, u # t PROVE \E m \in 1 .. Len(oldest) : oldest[m] = u
      <3>1. n \in 1 .. z - 1
        BY <1>2, <2>1, <2>3
      <3> QED
        BY <1>4, <2>3, <3>1
    <2>4. ASSUME NEW n \in 1 .. Len(oldest), oldest[n] = u, u # t PROVE \E m \in 1 .. z : s[m] = u
      BY <1>2, <2>2, <2>4
    <2> QED
      BY <1>2, <2>2, <2>3, <2>4
  <1>7. ASSUME NEW u \in CorpusTerm \ {t}, NEW n \in 1 .. z, NEW m \in 1 .. z, s[n] = u, s[m] = t
        PROVE  n < m
    <2>1. n \in 1 .. z - 1 /\ m \notin 1 .. z - 1
      BY <1>2, <1>3, <1>4, <1>7
    <2> QED
      BY <1>3, <2>1
  <1>8. ASSUME NEW u \in CorpusTerm \ {t}, NEW v \in CorpusTerm \ {t},
               \A n, m \in 1 .. Len(oldest) : oldest[n] = u /\ oldest[m] = v => n < m,
               NEW n \in 1 .. z, NEW m \in 1 .. z, s[n] = u, s[m] = v
        PROVE  n < m
    <2>1. n \in 1 .. z - 1 /\ m \in 1 .. z - 1
      BY <1>2, <1>3, <1>8
    <2>2. (IF n < i THEN n ELSE n + 1) < (IF m < i THEN m ELSE m + 1)
      BY <1>4, <1>8, <2>1
    <2> QED
      BY <1>3, <2>1, <2>2
  <1>10. DOMAIN oldest' = 1 .. z
    BY <1>3, <1>9
  <1>11. DOMAIN oldest = 1 .. Len(oldest)
    BY <1>1
  <1>12. oldest' \in Seq(CorpusTerm) /\ \A n, m \in DOMAIN oldest' : oldest'[n] = oldest'[m] => n = m
    BY <1>2, <1>5, <1>9, <1>10
  <1>13. \A u \in CorpusTerm : (\E n \in DOMAIN oldest' : oldest'[n] = u)
                                  <=> u = t \/ \E n \in DOMAIN oldest : oldest[n] = u
    BY <1>6, <1>9, <1>10, <1>11
  <1>14. \A u \in CorpusTerm \ {t} : \A n, m \in DOMAIN oldest' :
            oldest'[n] = u /\ oldest'[m] = t => n < m
    BY <1>7, <1>9, <1>10
  <1>15. \A u, v \in CorpusTerm \ {t} :
            (\A n, m \in DOMAIN oldest : oldest[n] = u /\ oldest[m] = v => n < m) =>
                \A n, m \in DOMAIN oldest' : oldest'[n] = u /\ oldest'[m] = v => n < m
    BY <1>8, <1>9, <1>10, <1>11
  <1> QED
    BY <1>12, <1>13, <1>14, <1>15, Zenon

\* An estimate is written, and who waits stays before it.
LEMMA EstimateWritten ==
    ASSUME CorpusInv, NEW k \in Keeper, C!WriteEstimate(k) PROVE CorpusInv'
  <1>1. /\ scored' = scored /\ noticed' = noticed /\ contains' = contains
        /\ lane' = lane /\ did' = did /\ turns' = turns /\ halfway' = halfway
        /\ keeper[k].at = "estimate" /\ keeper[k].work # <<>>
    BY DEF C!WriteEstimate
  <1>2. CorpusTypes /\ ScoredOnce /\ AskedOnce /\ Offered /\ InOrder /\ Waiting
    BY DEF CorpusInv
  <1>3. keeper[k] \in Rounds /\ keeper[k].work \in Seq(Due)
    BY <1>1, <1>2, RoundTypes DEF CorpusTypes
  <1>4. PICK had : keeper[k] = [at |-> "estimate", work |-> had]
    BY <1>1, <1>3 DEF Rounds, C!Idle
  <1>5. /\ had = keeper[k].work /\ had \in Seq(Due) /\ had # <<>> /\ DOMAIN had = 1 .. Len(had)
        /\ Len(had) \in Nat /\ Len(had) > 0 /\ had[1] \in Due
    BY <1>1, <1>3, <1>4
  <1>6. PICK left : left = Tail(had)
    OBVIOUS
  <1>7. /\ left \in Seq(Due) /\ DOMAIN left = 1 .. Len(had) - 1
        /\ \A n \in 1 .. Len(had) - 1 : left[n] = had[n + 1]
    BY <1>5, <1>6
  <1> DEFINE new == [at |-> "estimate", work |-> left]
  <1>8. keeper' = [keeper EXCEPT ![k] = new]
    <2>1. keeper' = [keeper EXCEPT ![k] = [keeper[k] EXCEPT !.work = left]]
      BY <1>5, <1>6 DEF C!WriteEstimate
    <2>2. [keeper[k] EXCEPT !.work = left] = new
      BY <1>4
    <2> QED
      BY <2>1, <2>2
  <1>9. new \in Rounds /\ new.at = "estimate" /\ new.work = left
    BY <1>7 DEF Rounds
  <1> HIDE DEF new
  <1>10. PICK t \in CorpusTerm, mean \in Nat \ {0} : t = had[1].term /\ mean = had[1].mean
    BY <1>5 DEF Due
  <1>11. estimate' = [estimate EXCEPT ![t] = mean] /\ oldest' = C!Stamped(t)
    <2>1. Head(keeper[k].work) = had[1]
      BY <1>5
    <2> QED
      BY <1>10, <2>1 DEF C!WriteEstimate
  <1>12. /\ estimate' \in [CorpusTerm -> Nat] /\ estimate'[t] > 0
         /\ \A u \in CorpusTerm \ {t} : estimate'[u] = estimate[u]
    BY <1>2, <1>10, <1>11 DEF CorpusTypes
  <1>13. /\ oldest' \in Seq(CorpusTerm)
         /\ \A n, m \in DOMAIN oldest' : oldest'[n] = oldest'[m] => n = m
         /\ \A u \in CorpusTerm : (\E n \in DOMAIN oldest' : oldest'[n] = u)
                                      <=> u = t \/ \E n \in DOMAIN oldest : oldest[n] = u
         /\ \A u \in CorpusTerm \ {t} : \A n, m \in DOMAIN oldest' :
                oldest'[n] = u /\ oldest'[m] = t => n < m
         /\ \A u, v \in CorpusTerm \ {t} :
                (\A n, m \in DOMAIN oldest : oldest[n] = u /\ oldest[m] = v => n < m) =>
                    \A n, m \in DOMAIN oldest' : oldest'[n] = u /\ oldest'[m] = v => n < m
    BY <1>2, <1>11, StampedLast
  <1>14. /\ keeper' \in [Keeper -> Rounds] /\ keeper'[k] = new
         /\ \A j \in Keeper \ {k} : keeper'[j] = keeper[j]
    BY <1>2, <1>8, <1>9, RoundStep
  <1>15. CorpusTypes'
    BY <1>1, <1>2, <1>12, <1>13, <1>14 DEF CorpusTypes
  <1>16. ScoredOnce'
    BY <1>1, <1>2, LanesRest
  <1>17. AskedOnce'
    <2>1. Asking(k, new, did.once)
      BY <1>9 DEF Asking
    <2>2. \A u \in CorpusTerm : <<k, "ask", u>> \in did.once => contains[u] # {}
      BY <1>2 DEF AskedOnce
    <2> QED
      BY <1>1, <1>2, <1>8, <1>9, <2>1, <2>2, AskStep
  <1>18. Offered'
    BY <1>1, <1>2 DEF Offered
  <1>19. \A n \in 1 .. Len(had) : noticed[had[n].term] > 0
    BY <1>1, <1>2, <1>5 DEF InOrder
  <1>20. InOrder'
    <2>1. ASSUME NEW u \in CorpusTerm
          PROVE  /\ estimate'[u] > 0 <=> \E n \in DOMAIN oldest' : oldest'[n] = u
                 /\ estimate'[u] > 0 => noticed[u] > 0
      <3>1. CASE u = t
        <4>1. noticed[t] > 0
          BY <1>5, <1>10, <1>19
        <4> QED
          BY <3>1, <4>1, <1>12, <1>13
      <3>2. CASE u # t
        <4>1. /\ estimate[u] > 0 <=> \E n \in DOMAIN oldest : oldest[n] = u
              /\ estimate[u] > 0 => noticed[u] > 0
          BY <1>2 DEF InOrder
        <4> QED
          BY <3>2, <4>1, <1>12, <1>13
      <3> QED
        BY <3>1, <3>2
    <2>2. ASSUME NEW j \in Keeper, keeper'[j].at = "estimate", NEW n \in DOMAIN keeper'[j].work
          PROVE  noticed[keeper'[j].work[n].term] > 0
      <3>1. CASE j = k
        <4>1. n + 1 \in 1 .. Len(had) /\ keeper'[j].work[n] = had[n + 1]
          BY <2>2, <3>1, <1>5, <1>7, <1>9, <1>14
        <4> QED
          BY <4>1, <1>19
      <3>2. CASE j # k
        BY <2>2, <3>2, <1>2, <1>14 DEF InOrder
      <3> QED
        BY <3>1, <3>2
    <2> QED
      BY <1>1, <1>13, <2>1, <2>2 DEF InOrder
  <1>21. \A u : IsDue(k, u) <=> u = t \/ IsDue(k, u)'
    <2> TAKE u
    <2>1. IsDue(k, u) <=> \E n \in 1 .. Len(had) : had[n].term = u
      BY <1>1, <1>5 DEF IsDue
    <2>2. IsDue(k, u)' <=> \E n \in 1 .. Len(had) - 1 : had[n + 1].term = u
      BY <1>7, <1>9, <1>14 DEF IsDue
    <2>3. \A n \in 1 .. Len(had) : n = 1 \/ (n - 1 \in 1 .. Len(had) - 1 /\ (n - 1) + 1 = n)
      BY <1>5
    <2>4. 1 \in 1 .. Len(had) /\ \A n \in 1 .. Len(had) - 1 : n + 1 \in 1 .. Len(had)
      BY <1>5
    <2> QED
      BY <1>10, <2>1, <2>2, <2>3, <2>4
  <1>22. \A u : \A j \in Keeper \ {k} : IsDue(j, u)' <=> IsDue(j, u)
    BY <1>14 DEF IsDue
  <1>23. Waiting'
    <2>1. ASSUME NEW i \in Keeper, NEW j \in Keeper, keeper'[i].at = "estimate",
                 keeper'[j].at = "estimate", \E u \in CorpusTerm : turns.ahead[u] # {}
          PROVE  i = j
      <3>1. keeper[i].at = "estimate" /\ keeper[j].at = "estimate"
        BY <2>1, <1>1, <1>14
      <3> QED
        BY <2>1, <3>1, <1>2 DEF Waiting
    <2>2. ASSUME NEW w \in CorpusTerm, turns.ahead[w] # {}
          PROVE  /\ noticed[w] > 0 /\ \A j \in Keeper : ~IsDue(j, w)'
                 /\ \A u \in turns.ahead[w] :
                        u # w /\ ((\E j \in Keeper : IsDue(j, u)') \/ Behind(w, u)')
      <3>1. /\ noticed[w] > 0 /\ \A j \in Keeper : ~IsDue(j, w)
            /\ \A u \in turns.ahead[w] : u # w /\ ((\E j \in Keeper : IsDue(j, u)) \/ Behind(w, u))
        BY <1>2, <2>2 DEF Waiting
      <3>2. \A j \in Keeper : ~IsDue(j, w)'
        BY <3>1, <1>21, <1>22
      <3>3. w # t
        BY <3>1, <1>21
      <3>4. ASSUME NEW u \in turns.ahead[w] PROVE (\E j \in Keeper : IsDue(j, u)') \/ Behind(w, u)'
        <4>1. u \in CorpusTerm
          BY <1>2 DEF CorpusTypes
        <4>2. CASE u = t
          BY <3>3, <4>2, <1>12, <1>13 DEF Behind
        <4>3. CASE u # t /\ Behind(w, u)
          BY <3>3, <4>1, <4>3, <1>12, <1>13 DEF Behind
        <4>4. CASE u # t /\ \E j \in Keeper : IsDue(j, u)
          BY <4>4, <1>21, <1>22
        <4> QED
          BY <3>1, <4>2, <4>3, <4>4
      <3> QED
        BY <3>1, <3>2, <3>4
    <2> QED
      BY <1>1, <2>1, <2>2 DEF Waiting
  <1> QED
    BY <1>15, <1>16, <1>17, <1>18, <1>20, <1>23 DEF CorpusInv

\* The terms without an estimate that a pass takes, in some order.
LEMMA ChosenIs ==
    ASSUME Mining, NEW chosen \in C!SetToAllKPermutations(C!Missing)
    PROVE  chosen \in Seq(C!Missing)
  <1>1. PICK S \in SUBSET C!Missing : chosen \in C!SetToSeqs(S)
    BY DEF C!SetToAllKPermutations
  <1>2. IsFiniteSet(S)
    <2>1. S \subseteq CorpusTerm
      BY DEF C!Missing
    <2> QED
      BY <2>1, FS_Subset DEF Mining
  <1>3. C!Cardinality(S) \in Nat
    BY <1>2, Numbering
  <1>4. chosen \in [1 .. C!Cardinality(S) -> S]
    BY <1>1 DEF C!SetToSeqs
  <1>5. \A n \in 1 .. C!Cardinality(S) : chosen[n] \in C!Missing
    BY <1>4
  <1> QED
    BY <1>3, <1>4, <1>5

\* Those and the oldest, as many as there is room for.
LEMMA TakenIs ==
    ASSUME CorpusTypes, Mining, NEW chosen \in Seq(CorpusTerm), Len(chosen) <= TermLimit
    PROVE  \E m \in Nat :
            /\ m <= Len(oldest) /\ (m > 0 => Len(chosen) < TermLimit)
            /\ C!Taken(chosen) \in Seq(CorpusTerm)
            /\ DOMAIN C!Taken(chosen) = 1 .. Len(chosen) + m
            /\ \A n \in 1 .. Len(chosen) : C!Taken(chosen)[n] = chosen[n]
            /\ \A n \in 1 .. m : C!Taken(chosen)[Len(chosen) + n] = oldest[n]
  <1> DEFINE room == TermLimit - Len(chosen)
             m == IF room < Len(oldest) THEN room ELSE Len(oldest)
             front == SubSeq(oldest, 1, m)
  <1>1. oldest \in Seq(CorpusTerm) /\ Len(oldest) \in Nat /\ TermLimit \in Nat /\ Len(chosen) \in Nat
    BY DEF CorpusTypes, Mining
  <1>2. m \in Nat /\ m <= Len(oldest) /\ (m > 0 => Len(chosen) < TermLimit)
    BY <1>1
  <1>3. C!Taken(chosen) = chosen \o front
    BY DEF C!Taken
  <1> HIDE DEF m
  <1>4. /\ front \in Seq(CorpusTerm) /\ Len(front) = m
        /\ \A n \in 1 .. m : front[n] = oldest[n]
    BY <1>1, <1>2
  <1> HIDE DEF front
  <1>5. /\ chosen \o front \in Seq(CorpusTerm)
        /\ DOMAIN (chosen \o front) = 1 .. Len(chosen) + m
        /\ \A n \in 1 .. Len(chosen) : (chosen \o front)[n] = chosen[n]
    BY <1>1, <1>2, <1>4
  <1>6. ASSUME NEW n \in 1 .. m PROVE (chosen \o front)[Len(chosen) + n] = oldest[n]
    <2>1. (chosen \o front)[Len(chosen) + n] = front[n]
      BY <1>1, <1>2, <1>4
    <2> QED
      BY <2>1, <1>4
  <1> QED
    BY <1>2, <1>3, <1>5, <1>6

\* A pass takes the one that waits before the one behind it.
LEMMA WhoWaitsIsTaken ==
    ASSUME CorpusTypes, Mining, InOrder, NEW chosen \in Seq(C!Missing), Len(chosen) <= TermLimit,
           Len(chosen) = TermLimit \/ C!ToSet(chosen) = C!Missing,
           NEW t \in CorpusTerm, noticed[t] > 0, NEW u \in CorpusTerm, Behind(t, u),
           u \in C!ToSet(C!Taken(chosen))
    PROVE  t \in C!ToSet(C!Taken(chosen))
  <1>1. /\ Len(chosen) \in Nat /\ TermLimit \in Nat /\ chosen \in Seq(CorpusTerm)
        /\ DOMAIN chosen = 1 .. Len(chosen)
        /\ \A n \in 1 .. Len(chosen) : chosen[n] \in C!Missing /\ estimate[chosen[n]] = 0
    <2>1. \A n \in 1 .. Len(chosen) : chosen[n] \in C!Missing
      OBVIOUS
    <2> QED
      BY <2>1 DEF C!Missing, Mining
  <1> PICK due : due = C!Taken(chosen)
    OBVIOUS
  <1> PICK c \in Nat : c = Len(chosen)
    BY <1>1
  <1>2. PICK m \in Nat :
            /\ m <= Len(oldest) /\ (m > 0 => c < TermLimit)
            /\ DOMAIN due = 1 .. c + m
            /\ \A n \in 1 .. c : due[n] = chosen[n]
            /\ \A n \in 1 .. m : due[c + n] = oldest[n]
    <2>1. \E m \in Nat :
            /\ m <= Len(oldest) /\ (m > 0 => Len(chosen) < TermLimit)
            /\ C!Taken(chosen) \in Seq(CorpusTerm)
            /\ DOMAIN C!Taken(chosen) = 1 .. Len(chosen) + m
            /\ \A n \in 1 .. Len(chosen) : C!Taken(chosen)[n] = chosen[n]
            /\ \A n \in 1 .. m : C!Taken(chosen)[Len(chosen) + n] = oldest[n]
      BY <1>1, TakenIs
    <2> QED
      BY <2>1, Zenon
  <1>3. PICK i \in 1 .. c + m : due[i] = u
    BY <1>2 DEF C!ToSet
  <1>4. i > c
    BY <1>1, <1>2, <1>3 DEF Behind
  <1>5. PICK n \in 1 .. m : i = c + n
    <2>1. i - c \in 1 .. m /\ i = c + (i - c)
      BY <1>1, <1>3, <1>4
    <2> QED
      BY <2>1
  <1>6. oldest[n] = u /\ c < TermLimit /\ C!ToSet(chosen) = C!Missing
    BY <1>1, <1>2, <1>3, <1>5
  <1>7. DOMAIN oldest = 1 .. Len(oldest) /\ Len(oldest) \in Nat /\ estimate[t] \in Nat
    BY DEF CorpusTypes
  <1>8. CASE estimate[t] = 0
    <2>1. t \in C!ToSet(chosen)
      BY <1>6, <1>8 DEF C!Missing
    <2>2. PICK l \in 1 .. c : chosen[l] = t
      BY <2>1, <1>1 DEF C!ToSet
    <2>3. l \in 1 .. c + m /\ due[l] = t
      BY <2>2, <1>1, <1>2
    <2> QED
      BY <2>3, <1>2 DEF C!ToSet
  <1>9. CASE estimate[t] > 0
    <2>1. PICK l \in DOMAIN oldest : oldest[l] = t
      BY <1>9 DEF InOrder
    <2>2. n \in DOMAIN oldest
      BY <1>2, <1>7
    <2>3. l < n
      BY <2>1, <2>2, <1>6 DEF Behind
    <2>4. l \in 1 .. m
      BY <2>1, <2>3, <1>7
    <2>5. c + l \in 1 .. c + m /\ due[c + l] = t
      <3>1. due[c + l] = oldest[l]
        BY <2>4, <1>2
      <3> QED
        BY <2>1, <2>4, <3>1
    <2> QED
      BY <2>5, <1>2 DEF C!ToSet
  <1> QED
    BY <1>7, <1>8, <1>9

\* A pass begins.
LEMMA PassBegins ==
    ASSUME Mining, CorpusInv, NEW k \in Keeper, C!BeginPass(k) PROVE CorpusInv'
  <1>1. /\ scored' = scored /\ noticed' = noticed /\ contains' = contains /\ estimate' = estimate
        /\ oldest' = oldest /\ lane' = lane /\ did' = did /\ halfway' = halfway
        /\ keeper[k] = C!Idle
    BY DEF C!BeginPass
  <1>2. CorpusTypes /\ ScoredOnce /\ AskedOnce /\ Offered /\ InOrder /\ Waiting
    BY DEF CorpusInv
  <1>3. PICK chosen \in C!SetToAllKPermutations(C!Missing) :
            /\ Len(chosen) <= TermLimit
            /\ Len(chosen) = TermLimit \/ C!ToSet(chosen) = C!Missing
            /\ keeper' = [keeper EXCEPT ![k] =
                [at |-> "estimate",
                 work |-> [n \in DOMAIN C!Taken(chosen) |->
                    [term |-> C!Taken(chosen)[n], mean |-> noticed[C!Taken(chosen)[n]]]]]]
            /\ C!Waits(k, C!ToSet(C!Taken(chosen)))
    BY DEF C!BeginPass
  <1>4. /\ chosen \in Seq(C!Missing) /\ chosen \in Seq(CorpusTerm) /\ Len(chosen) \in Nat
        /\ \A n \in 1 .. Len(chosen) : noticed[chosen[n]] > 0
    <2>1. chosen \in Seq(C!Missing)
      BY ChosenIs
    <2>2. \A n \in 1 .. Len(chosen) : chosen[n] \in C!Missing
      BY <2>1
    <2> QED
      BY <2>1, <2>2 DEF C!Missing
  <1>5. PICK due : due = C!Taken(chosen)
    OBVIOUS
  <1>6. PICK taken : taken = C!ToSet(due)
    OBVIOUS
  <1>7. /\ due \in Seq(CorpusTerm) /\ DOMAIN due = 1 .. Len(due) /\ Len(due) \in Nat
        /\ \A n \in 1 .. Len(due) : due[n] \in CorpusTerm /\ noticed[due[n]] > 0
    <2>1. PICK m \in Nat :
            /\ m <= Len(oldest) /\ due \in Seq(CorpusTerm)
            /\ DOMAIN due = 1 .. Len(chosen) + m
            /\ \A n \in 1 .. Len(chosen) : due[n] = chosen[n]
            /\ \A n \in 1 .. m : due[Len(chosen) + n] = oldest[n]
      <3>1. \E m \in Nat :
            /\ m <= Len(oldest) /\ (m > 0 => Len(chosen) < TermLimit)
            /\ C!Taken(chosen) \in Seq(CorpusTerm)
            /\ DOMAIN C!Taken(chosen) = 1 .. Len(chosen) + m
            /\ \A n \in 1 .. Len(chosen) : C!Taken(chosen)[n] = chosen[n]
            /\ \A n \in 1 .. m : C!Taken(chosen)[Len(chosen) + n] = oldest[n]
        BY <1>2, <1>3, <1>4, TakenIs
      <3> QED
        BY <3>1, <1>5, Zenon
    <2>2. DOMAIN due = 1 .. Len(due) /\ Len(due) \in Nat /\ Len(due) = Len(chosen) + m
      BY <2>1, <1>4
    <2>3. ASSUME NEW n \in 1 .. m PROVE noticed[oldest[n]] > 0 /\ oldest[n] \in CorpusTerm
      <3>1. n \in DOMAIN oldest /\ oldest[n] \in CorpusTerm
        BY <1>2, <2>1 DEF CorpusTypes
      <3> QED
        BY <1>2, <3>1 DEF InOrder
    <2>4. ASSUME NEW n \in 1 .. Len(due) PROVE due[n] \in CorpusTerm /\ noticed[due[n]] > 0
      <3>1. CASE n <= Len(chosen)
        BY <2>1, <2>2, <3>1, <1>4
      <3>2. CASE n > Len(chosen)
        <4>1. n - Len(chosen) \in 1 .. m /\ n = Len(chosen) + (n - Len(chosen))
          BY <2>2, <3>2, <1>4
        <4>2. due[n] = oldest[n - Len(chosen)]
          BY <2>1, <4>1
        <4> QED
          BY <2>3, <4>1, <4>2
      <3> QED
        BY <2>2, <3>1, <3>2, <1>4
    <2> QED
      BY <2>1, <2>2, <2>4
  <1> DEFINE left == [n \in DOMAIN due |-> [term |-> due[n], mean |-> noticed[due[n]]]]
             new == [at |-> "estimate", work |-> left]
  <1>8. keeper' = [keeper EXCEPT ![k] = new]
    BY <1>3, <1>5
  <1>9. /\ DOMAIN left = 1 .. Len(due)
        /\ \A n \in 1 .. Len(due) : left[n] \in Due /\ left[n].term = due[n]
    <2>1. ASSUME NEW n \in 1 .. Len(due) PROVE noticed[due[n]] \in Nat \ {0}
      BY <1>2, <1>7 DEF CorpusTypes
    <2> QED
      BY <1>7, <2>1 DEF Due
  <1>10. left \in Seq(Due)
    <2>1. left = [n \in 1 .. Len(due) |-> left[n]]
      BY <1>7
    <2> HIDE DEF left
    <2> QED
      BY <1>7, <1>9, <2>1
  <1> HIDE DEF left
  <1>11. new \in Rounds /\ new.at = "estimate" /\ new.work = left
    BY <1>10 DEF Rounds
  <1> HIDE DEF new
  <1>12. /\ keeper' \in [Keeper -> Rounds] /\ keeper'[k] = new
         /\ \A j \in Keeper \ {k} : keeper'[j] = keeper[j]
    BY <1>2, <1>8, <1>11, RoundStep
  <1>13. \A u : IsDue(k, u)' <=> u \in taken
    BY <1>6, <1>7, <1>9, <1>11, <1>12 DEF IsDue, C!ToSet
  <1>14. C!Waits(k, taken)
    BY <1>3, <1>5, <1>6
  <1>15. taken \subseteq CorpusTerm
    BY <1>6, <1>7 DEF C!ToSet
  <1>16. /\ DOMAIN turns = {"ahead", "overtaken"} /\ ~turns.overtaken
         /\ turns.ahead \in [CorpusTerm -> SUBSET CorpusTerm]
    BY <1>2 DEF CorpusTypes
  <1>17. /\ DOMAIN turns' = {"ahead", "overtaken"} /\ ~turns'.overtaken
         /\ turns'.ahead \in [CorpusTerm -> SUBSET CorpusTerm]
         /\ Waiting'
    <2>1. CASE C!Estimating(k)
      <3>1. turns' = [turns EXCEPT !.ahead = C!Nobody]
        BY <1>14, <2>1 DEF C!Waits
      <3>2. /\ DOMAIN turns' = {"ahead", "overtaken"} /\ turns'.overtaken = turns.overtaken
            /\ turns'.ahead = C!Nobody
        BY <3>1, <1>16
      <3>3. turns'.ahead \in [CorpusTerm -> SUBSET CorpusTerm] /\ \A t \in CorpusTerm : turns'.ahead[t] = {}
        BY <3>2 DEF C!Nobody
      <3>4. Waiting'
        BY <3>3 DEF Waiting
      <3> QED
        BY <3>2, <3>3, <3>4, <1>16
    <2>2. CASE ~C!Estimating(k)
      <3> DEFINE waiting == {t \in CorpusTerm : noticed[t] > 0} \ taken
                 ahead == [t \in CorpusTerm |-> IF t \in waiting THEN turns.ahead[t] \union taken ELSE {}]
                 over == turns.overtaken \/ \E t \in waiting : turns.ahead[t] \intersect taken # {}
      <3>1. turns' = [ahead |-> ahead, overtaken |-> over]
        BY <1>14, <2>2 DEF C!Waits
      <3>2. \A j \in Keeper : keeper[j].at # "estimate"
        BY <1>1, <2>2, IdleRound DEF C!Estimating
      <3>3. \A u : \A j \in Keeper : ~IsDue(j, u)
        BY <3>2 DEF IsDue
      <3>4. ASSUME NEW t \in CorpusTerm, NEW u \in turns.ahead[t]
            PROVE  u # t /\ Behind(t, u) /\ u \in CorpusTerm
        BY <1>2, <1>16, <3>3 DEF Waiting
      <3>5. ~over
        <4> SUFFICES ASSUME NEW t \in waiting, NEW u \in turns.ahead[t], u \in taken PROVE FALSE
          BY <1>16
        <4>1. Behind(t, u) /\ u \in CorpusTerm
          BY <3>4
        <4>2. t \in taken
          BY <4>1, <1>2, <1>3, <1>4, <1>5, <1>6, WhoWaitsIsTaken
        <4> QED
          BY <4>2
      <3>6. /\ DOMAIN turns' = {"ahead", "overtaken"} /\ turns'.overtaken = over /\ turns'.ahead = ahead
        <4> HIDE DEF ahead, over
        <4> QED
          BY <3>1
      <3>7. ahead \in [CorpusTerm -> SUBSET CorpusTerm]
        BY <1>15, <1>16
      <3>8. ASSUME NEW i \in Keeper, NEW j \in Keeper, keeper'[i].at = "estimate",
                   keeper'[j].at = "estimate"
            PROVE  i = j
        BY <3>2, <3>8, <1>12
      <3>9. ASSUME NEW t \in CorpusTerm, ahead[t] # {}
            PROVE  /\ noticed[t] > 0 /\ \A j \in Keeper : ~IsDue(j, t)'
                   /\ \A u \in ahead[t] : u # t /\ ((\E j \in Keeper : IsDue(j, u)') \/ Behind(t, u)')
        <4>1. t \in waiting /\ ahead[t] = turns.ahead[t] \union taken
          BY <3>9
        <4>2. noticed[t] > 0 /\ t \notin taken
          BY <4>1
        <4> HIDE DEF ahead, over, waiting
        <4>3. ASSUME NEW j \in Keeper PROVE ~IsDue(j, t)'
          <5>1. CASE j = k
            BY <5>1, <4>2, <1>13
          <5>2. CASE j # k
            BY <5>2, <3>2, <1>12 DEF IsDue
          <5> QED
            BY <5>1, <5>2
        <4>4. ASSUME NEW u \in turns.ahead[t] PROVE u # t /\ Behind(t, u)'
          <5>1. u # t /\ Behind(t, u)
            BY <3>4
          <5> QED
            BY <5>1, <1>1 DEF Behind
        <4>5. ASSUME NEW u \in taken PROVE u # t /\ IsDue(k, u)'
          BY <4>2, <1>13
        <4> QED
          BY <4>1, <4>2, <4>3, <4>4, <4>5
      <3> HIDE DEF ahead, over
      <3>10. Waiting'
        BY <1>1, <3>6, <3>8, <3>9 DEF Waiting
      <3> QED
        BY <3>5, <3>6, <3>7, <3>10
    <2> QED
      BY <2>1, <2>2
  <1>18. CorpusTypes'
    BY <1>1, <1>2, <1>12, <1>17 DEF CorpusTypes
  <1>19. ScoredOnce'
    BY <1>1, <1>2, LanesRest
  <1>20. AskedOnce'
    <2>1. Asking(k, new, did.once)
      BY <1>11 DEF Asking
    <2>2. \A u \in CorpusTerm : <<k, "ask", u>> \in did.once => contains[u] # {}
      BY <1>2 DEF AskedOnce
    <2> QED
      BY <1>1, <1>2, <1>8, <1>11, <2>1, <2>2, AskStep
  <1>21. Offered'
    BY <1>1, <1>2 DEF Offered
  <1>22. InOrder'
    <2>1. ASSUME NEW j \in Keeper, keeper'[j].at = "estimate", NEW n \in DOMAIN keeper'[j].work
          PROVE  noticed[keeper'[j].work[n].term] > 0
      <3>1. CASE j = k
        BY <2>1, <3>1, <1>7, <1>9, <1>11, <1>12
      <3>2. CASE j # k
        BY <2>1, <3>2, <1>2, <1>12 DEF InOrder
      <3> QED
        BY <3>1, <3>2
    <2> QED
      BY <1>1, <1>2, <2>1 DEF InOrder
  <1> QED
    BY <1>17, <1>18, <1>19, <1>20, <1>21, <1>22 DEF CorpusInv

LEMMA CorpusNext == ASSUME Mining, CorpusInv, [C!Next]_C!vars PROVE CorpusInv'
  <1>1. CASE UNCHANGED C!vars
    <2>1. /\ scored' = scored /\ noticed' = noticed /\ contains' = contains /\ estimate' = estimate
          /\ oldest' = oldest /\ lane' = lane /\ keeper' = keeper /\ did' = did /\ turns' = turns
          /\ halfway' = halfway
      BY <1>1 DEF C!vars
    <2>2. CorpusTypes' /\ ScoredOnce' /\ AskedOnce'
      BY <2>1 DEF CorpusInv, CorpusTypes, ScoredOnce, Finished, AskedOnce, Asking
    <2>3. Offered' /\ InOrder'
      BY <2>1 DEF CorpusInv, Offered, InOrder
    <2>4. Waiting'
      BY <2>1 DEF CorpusInv, Waiting, IsDue, Behind
    <2> QED
      BY <2>2, <2>3, <2>4 DEF CorpusInv
  <1>2. CASE C!Next
    BY <1>2, TermSeen, LaneSteps, RoundCut, PassBegins, EstimateWritten, RoundEnds, TermConfirmed,
       StoreAsked DEF C!Next
  <1> QED
    BY <1>1, <1>2

\* scoreCompetition, recomputeEstimates and validateMinedTerms, with nothing but the rows to go by:
\* for any terms, processes, keepers and limit a process scores a term once and asks for it once,
\* no term is computed anew twice while another waits, and a term the store offered counts as seen
\* but between the two signals that say so.
THEOREM CorpusAlwaysMovesOn ==
    ASSUME Mining PROVE C!Spec => [](C!CorpusMovesOn /\ CorpusMovesOn)
  <1>1. CorpusInv => C!CorpusMovesOn /\ CorpusMovesOn
    BY DEF CorpusInv, CorpusTypes, Offered, C!CorpusMovesOn, CorpusMovesOn
  <1> QED
    BY <1>1, CorpusInit, CorpusNext, PTL DEF C!Spec
================================================================================
