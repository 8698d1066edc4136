--------------------------- MODULE IndependentProofs ---------------------------
(***************************************************************************)
(* Of what MCIndependent checks, for any constants: derivations claim      *)
(* organic installs only for known days, whatever the days, windows and    *)
(* derivations side by side, and one that nothing disturbed settles the    *)
(* rows; the groups of a member's terms are disjoint stars whose centres   *)
(* do not relate, whatever was observed of the terms; what is shown as a   *)
(* developer's reply the store has accepted; a phone that was told it is   *)
(* registered stays within reach; the storefronts of an app speak as one;  *)
(* the advice on titles and the analysis of reviews are done once; the     *)
(* competitors' changes are told and ranked; the climb of an app on a      *)
(* chart is one it made; and the ranks that are compared belong together.  *)
(***************************************************************************)
EXTENDS MCIndependent, Sequences, FiniteSetTheorems, WellFoundedInduction, TLAPS

-----------------------------------------------------------------------------
(* Organic installs: the invariant                                         *)

\* A copy a derivation has read never knows more than the rows there are now: rows are
\* restated, never deleted.
Older(rows, now) == \A d \in Dates : rows[d] # NoRow => now[d] # NoRow

\* What a derivation holds: copies no newer than the rows, and dates left to write that
\* both copies account for.
Sound(w, rows, spent) ==
    /\ \A s \in Sources : Older(w.installs[s], rows[s])
    /\ Older(w.paid, spent)
    /\ w.phase = "write" => w.todo \subseteq Derivable(w.installs, w.paid)

Fields == {"phase", "window", "todo", "got", "clean", "installs", "paid"}

\* The domains of the rows, which is all that is needed of their types.
Domains ==
    /\ DOMAIN installs = Sources
    /\ \A s \in Sources : DOMAIN installs[s] = Dates
    /\ DOMAIN paid = Dates /\ DOMAIN organic = Dates
    /\ DOMAIN job = Jobs
    /\ \A j \in Jobs : job[j] # Idle => DOMAIN job[j] = Fields

\* OnlyKnownDays alone is not inductive: an Upsert is right because of what was read
\* earlier, and that is still so because rows only ever appear.
IInv ==
    /\ Domains
    /\ \A j \in Jobs : job[j] # Idle => Sound(job[j], installs, paid)
    /\ OnlyKnownDays

-----------------------------------------------------------------------------

\* preferAuthoritativeSource makes nothing up: a total it returns is some source's.
LEMMA PreferredIsReported ==
    ASSUME NEW rows, NEW d \in Dates, Preferred(rows)[d] # NoRow
    PROVE  \E s \in Sources : rows[s][d] # NoRow
  <1> DEFINE heard == {i \in DOMAIN Tiers : Dated(rows[Tiers[i]]) # {}}
             best == {Tiers[i] : i \in {k \in heard : \A n \in heard : k <= n}}
  <1>1. Preferred(rows)[d] = IF best = {} THEN NoRow ELSE rows[CHOOSE s \in best : TRUE][d]
    BY DEF Preferred
  <1>2. best \subseteq Sources
    BY DEF Sources
  <1>3. best # {}
    BY <1>1
  <1>4. (CHOOSE s \in best : TRUE) \in best
    BY <1>3
  <1> QED
    BY <1>1, <1>2, <1>3, <1>4

\* A date left to write is known to the copies, so to the rows.
LEMMA DerivableIsKnown ==
    ASSUME NEW w, Sound(w, installs, paid), NEW d \in Derivable(w.installs, w.paid)
    PROVE  /\ d \in Dates
           /\ \E first, last \in Dated(paid) : first <= d /\ d <= last
           /\ \E s \in Sources : installs[s][d] # NoRow
  <1>1. d \in Dates /\ Preferred(w.installs)[d] # NoRow /\ d \in Span(w.paid)
    BY DEF Derivable, Dated
  <1>2. PICK s \in Sources : w.installs[s][d] # NoRow
    BY <1>1, PreferredIsReported
  <1>3. PICK first \in Dated(w.paid), last \in Dated(w.paid) : first <= d /\ d <= last
    BY <1>1 DEF Span
  <1>4. first \in Dated(paid) /\ last \in Dated(paid)
    BY DEF Dated, Sound, Older
  <1> QED
    BY <1>1, <1>2, <1>3, <1>4 DEF Sound, Older

\* Days stay known.
LEMMA StaysKnown ==
    ASSUME OnlyKnownDays, organic' = organic,
           \A s \in Sources : Older(installs[s], installs'[s]), Older(paid, paid')
    PROVE  OnlyKnownDays'
  <1> SUFFICES ASSUME NEW d \in Dates, organic[d] # NoRow
               PROVE  /\ \E first, last \in Dated(paid') : first <= d /\ d <= last
                      /\ \E s \in Sources : installs'[s][d] # NoRow
    BY DEF OnlyKnownDays, Dated, NoRow, Dates, Sources
  <1>1. PICK first \in Dated(paid), last \in Dated(paid) : first <= d /\ d <= last
    BY DEF OnlyKnownDays
  <1>2. first \in Dated(paid') /\ last \in Dated(paid')
    BY DEF Dated, Older
  <1>3. PICK s \in Sources : installs[s][d] # NoRow
    BY DEF OnlyKnownDays
  <1> QED
    BY <1>1, <1>2, <1>3 DEF Older

-----------------------------------------------------------------------------

\* Nothing is derived yet.
LEMMA InitInv == Init => IInv
  BY DEF Init, IInv, Domains, OnlyKnownDays, NoRows

\* The domains stay what they are.
LEMMA NextDomains ==
    ASSUME Domains, Next
    PROVE  Domains'
  <1> USE DEF Domains
  <1>1. ASSUME NEW s \in Sources, NEW d \in Dates, NEW v, WriteInstalls(s, d, v)
        PROVE  Domains'
    BY <1>1 DEF WriteInstalls, Written, Disturbed
  <1>2. ASSUME NEW d \in Dates, NEW v, WritePaid(d, v)
        PROVE  Domains'
    BY <1>2 DEF WritePaid, Written, Disturbed
  <1>3. ASSUME NEW j \in Jobs, NEW days \in Windows, Begin(j, days)
        PROVE  Domains'
    BY <1>3 DEF Begin, Disturbed, Fields
  <1>4. ASSUME NEW j \in Jobs, ReadInstalls(j) \/ ReadPaid(j) \/ Decide(j)
        PROVE  Domains'
    BY <1>4 DEF ReadInstalls, ReadPaid, Decide, HasRead, Fields, Idle
  <1>5. ASSUME NEW j \in Jobs, NEW d \in Dates, Upsert(j, d)
        PROVE  Domains'
    BY <1>5 DEF Upsert, Fields, Idle
  <1>6. ASSUME NEW j \in Jobs, Decline(j) \/ DropStale(j) \/ Crash(j)
        PROVE  Domains'
    BY <1>6 DEF Decline, DropStale, Ends, Crash, Fields, Idle
  <1> QED
    BY <1>1, <1>2, <1>3, <1>4, <1>5, <1>6 DEF Next

\* Every step keeps the invariant.  Writes and reads leave the derived rows alone, Upsert
\* is sound because of what its derivation has read, and DropStale only drops.
LEMMA NextInv == IInv /\ [Next]_vars => IInv'
  <1> SUFFICES ASSUME IInv, [Next]_vars
               PROVE  IInv'
    OBVIOUS
  <1> USE OrganicAssumption
  <1>0. CASE UNCHANGED vars
    BY <1>0 DEF vars, IInv, Domains, OnlyKnownDays, Sound, Dates, Sources, Older
  <1>d. ASSUME Next PROVE Domains'
    BY <1>d, NextDomains DEF IInv
  <1>i. Domains /\ OnlyKnownDays /\ \A j \in Jobs : job[j] # Idle => Sound(job[j], installs, paid)
    BY DEF IInv
  <1>1. ASSUME Written, organic' = organic,
               \A s \in Sources : Older(installs[s], installs'[s]), Older(paid, paid')
        PROVE  OnlyKnownDays' /\ \A j \in Jobs : job'[j] # Idle => Sound(job'[j], installs', paid')
    <2>1. OnlyKnownDays'
      BY <1>1, <1>i, StaysKnown
    <2>2. ASSUME NEW j \in Jobs, job'[j] # Idle
          PROVE  Sound(job'[j], installs', paid')
      <3>1. /\ job[j] # Idle
            /\ job'[j] = [job[j] EXCEPT !.clean = FALSE]
        BY <1>1, <2>2 DEF Written, Disturbed
      <3>2. DOMAIN job[j] = Fields
        BY <3>1, <1>i DEF Domains
      <3>3. /\ job'[j].installs = job[j].installs
            /\ job'[j].paid = job[j].paid
            /\ job'[j].phase = job[j].phase
            /\ job'[j].todo = job[j].todo
        BY <3>1, <3>2 DEF Fields
      <3>4. Sound(job[j], installs, paid)
        BY <3>1, <1>i
      <3> QED
        BY <3>3, <3>4, <1>1 DEF Sound, Older
    <2> QED
      BY <2>1, <2>2
  <1>2. ASSUME NEW s \in Sources, NEW d \in Dates, NEW v \in Totals, WriteInstalls(s, d, v)
        PROVE  IInv'
    <2>1. v # NoRow
      BY DEF NoRow
    <2>2. \A r \in Sources : Older(installs[r], installs'[r])
      BY <1>2, <2>1, <1>i DEF WriteInstalls, Older, Domains
    <2>3. Older(paid, paid') /\ organic' = organic /\ Written
      BY <1>2 DEF WriteInstalls, Older
    <2>4. Next
      BY <1>2 DEF Next
    <2> QED
      BY <2>2, <2>3, <2>4, <1>1, <1>d DEF IInv, Idle
  <1>3. ASSUME NEW d \in Dates, NEW v \in Spent, WritePaid(d, v)
        PROVE  IInv'
    <2>1. v # NoRow
      BY DEF NoRow
    <2>2. Older(paid, paid')
      BY <1>3, <2>1, <1>i DEF WritePaid, Older, Domains
    <2>3. (\A r \in Sources : Older(installs[r], installs'[r])) /\ organic' = organic /\ Written
      BY <1>3 DEF WritePaid, Older
    <2>4. Next
      BY <1>3 DEF Next
    <2> QED
      BY <2>2, <2>3, <2>4, <1>1, <1>d DEF IInv, Idle
  <1>4. ASSUME NEW j \in Jobs, NEW days \in Windows, Begin(j, days)
        PROVE  IInv'
    <2>1. Domains' /\ OnlyKnownDays'
      BY <1>4, <1>d, <1>i DEF Begin, Next, OnlyKnownDays
    <2>2. ASSUME NEW i \in Jobs, job'[i] # Idle
          PROVE  Sound(job'[i], installs', paid')
      <3>1. CASE i = j
        <4>1. /\ job'[i].installs = [s \in Sources |-> NoRows] /\ job'[i].paid = NoRows
              /\ job'[i].phase = "read"
          BY <1>4, <1>i, <3>1 DEF Begin, Domains, Disturbed
        <4> QED
          BY <4>1 DEF Sound, Older, NoRows
      <3>2. CASE i # j
        <4>1. job[i] # Idle /\ job'[i] = [job[i] EXCEPT !.clean = FALSE]
          BY <1>4, <1>i, <3>2, <2>2 DEF Begin, Domains, Disturbed
        <4>2. DOMAIN job[i] = Fields
          BY <4>1, <1>i DEF Domains
        <4>3. /\ job'[i].installs = job[i].installs /\ job'[i].paid = job[i].paid
              /\ job'[i].phase = job[i].phase /\ job'[i].todo = job[i].todo
          BY <4>1, <4>2 DEF Fields
        <4>4. Sound(job[i], installs, paid)
          BY <4>1, <1>i
        <4> QED
          BY <4>3, <4>4, <1>4 DEF Begin, Sound
      <3> QED
        BY <3>1, <3>2
    <2> QED
      BY <2>1, <2>2 DEF IInv, Idle
  <1>5. ASSUME NEW j \in Jobs, Next, UNCHANGED <<installs, paid>>,
               \A i \in Jobs \ {j} : job'[i] = job[i],
               job'[j] # Idle => Sound(job'[j], installs, paid), OnlyKnownDays'
        PROVE  IInv'
    BY <1>5, <1>d, <1>i DEF IInv, Idle
  <1>6. ASSUME NEW j \in Jobs, ReadInstalls(j)
        PROVE  IInv'
    <2>1. job[j] # Idle /\ DOMAIN job[j] = Fields /\ Sound(job[j], installs, paid)
      BY <1>6, <1>i DEF ReadInstalls, Idle, Domains
    <2>2. /\ job'[j].installs = [s \in Sources |-> Within(installs[s], job[j].window)]
          /\ job'[j].paid = job[j].paid /\ job'[j].phase = "read"
      BY <1>6, <2>1, <1>i DEF ReadInstalls, Domains, Fields
    <2>3. Sound(job'[j], installs, paid)
      BY <2>1, <2>2 DEF Sound, Older, Within
    <2>4. \A i \in Jobs \ {j} : job'[i] = job[i]
      BY <1>6, <1>i DEF ReadInstalls, Domains
    <2>5. OnlyKnownDays' /\ UNCHANGED <<installs, paid>> /\ Next
      BY <1>6, <1>i DEF ReadInstalls, OnlyKnownDays, Next
    <2> QED
      BY <2>3, <2>4, <2>5, <1>5
  <1>7. ASSUME NEW j \in Jobs, ReadPaid(j)
        PROVE  IInv'
    <2>1. job[j] # Idle /\ DOMAIN job[j] = Fields /\ Sound(job[j], installs, paid)
      BY <1>7, <1>i DEF ReadPaid, Idle, Domains
    <2>2. /\ job'[j].paid = Within(paid, job[j].window)
          /\ job'[j].installs = job[j].installs /\ job'[j].phase = "read"
      BY <1>7, <2>1, <1>i DEF ReadPaid, Domains, Fields
    <2>3. Sound(job'[j], installs, paid)
      BY <2>1, <2>2 DEF Sound, Older, Within
    <2>4. \A i \in Jobs \ {j} : job'[i] = job[i]
      BY <1>7, <1>i DEF ReadPaid, Domains
    <2>5. OnlyKnownDays' /\ UNCHANGED <<installs, paid>> /\ Next
      BY <1>7, <1>i DEF ReadPaid, OnlyKnownDays, Next
    <2> QED
      BY <2>3, <2>4, <2>5, <1>5
  <1>8. ASSUME NEW j \in Jobs, Decide(j)
        PROVE  IInv'
    <2>1. job[j] # Idle /\ DOMAIN job[j] = Fields /\ Sound(job[j], installs, paid)
      BY <1>8, <1>i DEF Decide, HasRead, Idle, Domains
    <2>2. /\ job'[j].installs = job[j].installs /\ job'[j].paid = job[j].paid
          /\ job'[j].todo = Derivable(job[j].installs, job[j].paid)
      BY <1>8, <2>1, <1>i DEF Decide, Domains, Fields
    <2>3. Sound(job'[j], installs, paid)
      BY <2>1, <2>2 DEF Sound
    <2>4. \A i \in Jobs \ {j} : job'[i] = job[i]
      BY <1>8, <1>i DEF Decide, Domains
    <2>5. OnlyKnownDays' /\ UNCHANGED <<installs, paid>> /\ Next
      BY <1>8, <1>i DEF Decide, OnlyKnownDays, Next
    <2> QED
      BY <2>3, <2>4, <2>5, <1>5
  <1>9. ASSUME NEW j \in Jobs, NEW d \in Dates, Upsert(j, d)
        PROVE  IInv'
    <2>1. job[j] # Idle /\ DOMAIN job[j] = Fields /\ Sound(job[j], installs, paid)
      BY <1>9, <1>i DEF Upsert, Idle, Domains
    <2>2. /\ job'[j].installs = job[j].installs /\ job'[j].paid = job[j].paid
          /\ job'[j].phase = "write" /\ job'[j].todo = job[j].todo \ {d}
      BY <1>9, <2>1, <1>i DEF Upsert, Domains, Fields
    <2>3. Sound(job'[j], installs, paid)
      BY <1>9, <2>1, <2>2 DEF Sound, Upsert
    <2>4. \A i \in Jobs \ {j} : job'[i] = job[i]
      BY <1>9, <1>i DEF Upsert, Domains
    <2>5. d \in Derivable(job[j].installs, job[j].paid)
      BY <1>9, <2>1 DEF Upsert, Sound
    <2>6. \A e \in Dates \ {d} : organic'[e] = organic[e]
      BY <1>9, <1>i DEF Upsert, Domains
    <2>7. UNCHANGED <<installs, paid>> /\ Next
      BY <1>9 DEF Upsert, Next
    <2>8. OnlyKnownDays'
      BY <2>1, <2>5, <2>6, <2>7, <1>i, DerivableIsKnown DEF OnlyKnownDays, Dated
    <2> QED
      BY <2>3, <2>4, <2>7, <2>8, <1>5
  <1>10. ASSUME NEW j \in Jobs, DropStale(j)
         PROVE  IInv'
    <2>1. job'[j] = Idle /\ \A i \in Jobs \ {j} : job'[i] = job[i]
      BY <1>10, <1>i DEF DropStale, Ends, Domains
    <2>2. \A e \in Dates : organic'[e] = NoRow \/ organic'[e] = organic[e]
      BY <1>10 DEF DropStale
    <2>3. UNCHANGED <<installs, paid>> /\ Next
      BY <1>10 DEF DropStale, Next
    <2>4. OnlyKnownDays'
      BY <2>2, <2>3, <1>i DEF OnlyKnownDays, Dated
    <2> QED
      BY <2>1, <2>3, <2>4, <1>5
  <1>11. ASSUME NEW j \in Jobs, Decline(j) \/ Crash(j)
         PROVE  IInv'
    <2>1. job'[j] = Idle /\ \A i \in Jobs \ {j} : job'[i] = job[i]
      BY <1>11, <1>i DEF Decline, Ends, Crash, Domains
    <2>2. OnlyKnownDays' /\ UNCHANGED <<installs, paid>> /\ Next
      BY <1>11, <1>i DEF Decline, Ends, Crash, OnlyKnownDays, Next
    <2> QED
      BY <2>1, <2>2, <1>5
  <1> QED
    BY <1>0, <1>2, <1>3, <1>4, <1>6, <1>7, <1>8, <1>9, <1>10, <1>11 DEF Next

\* Organic installs are only claimed for days the ad platforms report on and a store or SDK
\* has counted: deriveOrganicInstalls writes a row only inside the reported span and from a
\* total it has read, and neither goes away again, whatever runs side by side.
THEOREM DerivesKnownDaysOnly == Spec => []OnlyKnownDays
  <1>1. IInv => OnlyKnownDays
    BY DEF IInv
  <1> QED
    BY <1>1, InitInv, NextInv, PTL DEF Spec

-----------------------------------------------------------------------------
(* Organic installs settle.  A derivation nothing has disturbed runs alone *)
(* and has read the rows there are now; what it has written are the values *)
(* they define, so that when it has covered all days every row is the one  *)
(* expected.                                                               *)

\* SOURCE_PRECEDENCE is a list.
Ranked == DOMAIN Tiers \subseteq Nat

\* What an undisturbed derivation has read is so still, and what it has recomputed is right.
Current(w, rows, others, derived) ==
    /\ "installs" \in w.got => w.installs = [s \in Sources |-> Within(rows[s], w.window)]
    /\ "paid" \in w.got => w.paid = Within(others, w.window)
    /\ w.phase = "write" =>
        /\ w.got = {"installs", "paid"}
        /\ \A d \in Derivable(w.installs, w.paid) \ w.todo :
             derived[d] = Organic(Preferred(w.installs)[d], w.paid[d])

Fresh ==
    /\ installs \in [Sources -> [Dates -> Nat \union {NoRow}]]
    /\ paid \in [Dates -> Nat \union {NoRow}]
    /\ \A j \in Jobs : job[j] # Idle => job[j].clean \in BOOLEAN
    /\ \A j \in Jobs : job[j] # Idle /\ job[j].clean = TRUE =>
        /\ \A i \in Jobs \ {j} : job[i] = Idle
        /\ Current(job[j], installs, paid, organic)
    /\ stale \in BOOLEAN
    /\ stale = FALSE => /\ \A j \in Jobs : job[j] = Idle
                        /\ \A d \in Dates : organic[d] = Expected(d)

\* Of some numbers one is the least.
LEMMA LeastOf ==
    ASSUME NEW S, S \subseteq Nat, S # {}
    PROVE  \E m \in S : (\A n \in S : m <= n) /\ Min(S) = m
  <1>1. PICK m \in S : \A n \in S : ~(<<n, m>> \in OpToRel(<, Nat))
    BY WFMin, NatLessThanWellFounded, Zenon
  <1>2. \A n \in S : m <= n
    <2>1. \A n \in S : ~(n < m)
      BY <1>1, Zenon DEF OpToRel
    <2> QED
      BY <2>1
  <1>3. Min(S) \in S /\ \A n \in S : Min(S) <= n
    BY <1>2 DEF Min
  <1>4. Min(S) = m
    <2>1. Min(S) \in Nat /\ m \in Nat /\ Min(S) <= m /\ m <= Min(S)
      BY <1>2, <1>3
    <2> QED
      BY <2>1
  <1> QED
    BY <1>2, <1>4

\* preferAuthoritativeSource and the two queries over all days define the row expected.
LEMMA ExpectedRow ==
    ASSUME Ranked, Fresh, NEW d \in Dates
    PROVE  Expected(d) = IF d \in Derivable(installs, paid)
                         THEN Organic(Preferred(installs)[d], paid[d]) ELSE NoRow
  <1> DEFINE heard == {i \in DOMAIN Tiers : Dated(installs[Tiers[i]]) # {}}
             best == {Tiers[i] : i \in {k \in heard : \A n \in heard : k <= n}}
             total == IF heard = {} THEN NoRow ELSE installs[Tiers[Min(heard)]][d]
  <1>1. heard = {i \in DOMAIN Tiers : \E e \in Dates : installs[Tiers[i]][e] # NoRow}
    BY DEF Dated
  <1>2. Preferred(installs)[d] = total
    <2>1. Preferred(installs)[d] = IF best = {} THEN NoRow
                                   ELSE installs[CHOOSE s \in best : TRUE][d]
      BY DEF Preferred
    <2>2. CASE heard = {}
      <3>1. best = {}
        BY <2>2
      <3> QED
        BY <2>1, <2>2, <3>1
    <2>3. CASE heard # {}
      <3>1. heard \subseteq Nat
        BY DEF Ranked
      <3> HIDE DEF heard
      <3>2. PICK m \in heard : (\A n \in heard : m <= n) /\ Min(heard) = m
        BY <2>3, <3>1, LeastOf
      <3>3. \A k \in heard : (\A n \in heard : k <= n) => k = m
        BY <3>1, <3>2
      <3>4. {k \in heard : \A n \in heard : k <= n} = {m}
        BY <3>2, <3>3
      <3>5. best = {Tiers[m]}
        BY <3>4
      <3> HIDE DEF best
      <3>6. (CHOOSE s \in best : TRUE) = Tiers[m]
        BY <3>5
      <3>7. Preferred(installs)[d] = installs[Tiers[m]][d]
        BY <2>1, <3>5, <3>6
      <3> QED
        BY <2>3, <3>2, <3>7
    <2> QED
      BY <2>2, <2>3
  <1>3. total \in Nat \union {NoRow}
    <2>1. CASE heard = {}
      BY <2>1
    <2>2. CASE heard # {}
      <3>1. heard \subseteq Nat /\ heard \subseteq DOMAIN Tiers
        BY DEF Ranked
      <3>2. Min(heard) \in heard
        <4> HIDE DEF heard
        <4> QED
          BY <2>2, <3>1, LeastOf
      <3>3. Tiers[Min(heard)] \in Sources
        BY <3>1, <3>2 DEF Sources
      <3> QED
        BY <2>2, <3>3 DEF Fresh
    <2> QED
      BY <2>1, <2>2
  <1> DEFINE known == \E e, f \in Dates : e <= d /\ d <= f /\ NoRow \notin {paid[e], paid[f]}
  <1>4. d \in Span(paid) <=> known
    BY DEF Span, Dated
  <1>5. Expected(d) = IF total = NoRow \/ ~known THEN NoRow
                      ELSE IF paid[d] = NoRow THEN total
                      ELSE IF paid[d] > total THEN 0 ELSE total - paid[d]
    BY <1>1 DEF Expected
  <1>6. d \in Derivable(installs, paid) <=> total # NoRow /\ known
    BY <1>2, <1>4 DEF Derivable, Dated
  <1>7. paid[d] \in Nat \union {NoRow}
    BY DEF Fresh
  <1>8. ASSUME total # NoRow, known
        PROVE  Organic(total, paid[d]) = IF paid[d] = NoRow THEN total
                                         ELSE IF paid[d] > total THEN 0 ELSE total - paid[d]
    <2>1. ASSUME NEW n \in Int PROVE Max({0, n}) = IF n > 0 THEN n ELSE 0
      <3>1. \E x \in {0, n} : \A y \in {0, n} : x >= y
        OBVIOUS
      <3>2. Max({0, n}) \in {0, n} /\ \A y \in {0, n} : Max({0, n}) >= y
        BY <3>1 DEF Max
      <3> QED
        BY <3>2
    <2> HIDE DEF total
    <2>2. total \in Nat
      BY <1>3, <1>8
    <2>3. CASE paid[d] = NoRow
      <3>1. Organic(total, paid[d]) = Max({0, total})
        BY <2>2, <2>3 DEF Organic
      <3> QED
        BY <2>1, <2>2, <2>3, <3>1
    <2>4. CASE paid[d] # NoRow
      <3>1. paid[d] \in Nat /\ Organic(total, paid[d]) = Max({0, total - paid[d]})
        BY <1>7, <2>4 DEF Organic
      <3> QED
        BY <2>1, <2>2, <2>4, <3>1
    <2> QED
      BY <2>3, <2>4
  <1> HIDE DEF total, known
  <1> QED
    BY <1>2, <1>5, <1>6, <1>8

\* No derivation runs at first.
LEMMA InitFresh == Init => Fresh
  BY DEF Init, Fresh, NoRows, Idle, NoRow

\* A step of a derivation that goes on: whoever is undisturbed is the one that takes it.
LEMMA AloneStep ==
    ASSUME Fresh, NEW j \in Jobs, job[j] # Idle, UNCHANGED <<installs, paid, stale>>,
           \A i \in Jobs \ {j} : job'[i] = job[i],
           job'[j] # Idle => /\ job'[j].clean = job[j].clean
                             /\ job[j].clean = TRUE => Current(job'[j], installs, paid, organic')
    PROVE  Fresh'
  <1>1. stale' = TRUE
    BY DEF Fresh
  <1>2. ASSUME NEW i \in Jobs, job'[i] # Idle
        PROVE  /\ job'[i].clean \in BOOLEAN
               /\ job'[i].clean = TRUE => /\ \A k \in Jobs \ {i} : job'[k] = Idle
                                          /\ Current(job'[i], installs, paid, organic')
    <2>1. CASE i = j
      BY <1>2, <2>1 DEF Fresh
    <2>2. CASE i # j
      BY <1>2, <2>2 DEF Fresh
    <2> QED
      BY <2>1, <2>2
  <1> QED
    BY <1>1, <1>2 DEF Fresh, Idle

\* A derivation that ends is cut short, or leaves the rows it defines.
LEMMA EndStep ==
    ASSUME Fresh, Domains, NEW j \in Jobs, job[j] # Idle, UNCHANGED <<installs, paid>>,
           job' = [job EXCEPT ![j] = Idle], stale' \in BOOLEAN,
           stale' = FALSE => job[j].clean = TRUE /\ \A d \in Dates : organic'[d] = Expected(d)
    PROVE  Fresh'
  <1>1. job'[j] = Idle /\ \A i \in Jobs \ {j} : job'[i] = job[i]
    BY DEF Domains
  <1>2. ASSUME NEW i \in Jobs, job'[i] # Idle
        PROVE  job'[i].clean \in BOOLEAN /\ ~(job'[i].clean = TRUE)
    BY <1>1, <1>2 DEF Fresh
  <1>3. \A d \in Dates : Expected(d)' = Expected(d)
    BY DEF Expected
  <1>4. stale' = FALSE => \A i \in Jobs : job'[i] = Idle
    BY <1>1 DEF Fresh
  <1> QED
    BY <1>2, <1>3, <1>4 DEF Fresh, Idle

\* What a derivation over all days has read undisturbed are the rows.
LEMMA ReadAll ==
    ASSUME Fresh, NEW w, Current(w, installs, paid, organic), w.got = {"installs", "paid"},
           w.window = Dates
    PROVE  w.installs = installs /\ w.paid = paid
  <1>1. ASSUME NEW rows \in [Dates -> Nat \union {NoRow}]
        PROVE  Within(rows, Dates) = rows
    BY DEF Within
  <1>2. w.paid = paid
    BY <1>1 DEF Current, Fresh
  <1>3. w.installs = [s \in Sources |-> Within(installs[s], Dates)]
    BY DEF Current
  <1>4. \A s \in Sources : Within(installs[s], Dates) = installs[s]
    BY <1>1 DEF Fresh
  <1>5. w.installs = [s \in Sources |-> installs[s]]
    BY <1>3, <1>4
  <1>6. [s \in Sources |-> installs[s]] = installs
    BY DEF Fresh
  <1> QED
    BY <1>2, <1>5, <1>6

\* Fresh is inductive.
LEMMA FreshStep == ASSUME Ranked, IInv, Fresh, [Next]_vars PROVE Fresh'
  <1> USE OrganicAssumption
  <1>d. Domains /\ OnlyKnownDays
    BY DEF IInv
  <1>0. CASE UNCHANGED vars
    <2>1. UNCHANGED <<installs, paid, organic, job, stale>>
      BY <1>0 DEF vars
    <2>2. \A d \in Dates : Expected(d)' = Expected(d)
      BY <2>1 DEF Expected
    <2> QED
      BY <2>1, <2>2 DEF Fresh
  <1>1. ASSUME Written PROVE stale' = TRUE /\ \A j \in Jobs : job'[j] # Idle => job'[j].clean = FALSE
    <2>1. ASSUME NEW j \in Jobs, job'[j] # Idle PROVE job'[j].clean = FALSE
      <3>1. job[j] # Idle /\ job'[j] = [job[j] EXCEPT !.clean = FALSE]
        BY <1>1, <2>1 DEF Written, Disturbed
      <3>2. DOMAIN job[j] = Fields
        BY <1>d, <3>1 DEF Domains
      <3> QED
        BY <3>1, <3>2 DEF Fields
    <2> QED
      BY <1>1, <2>1 DEF Written
  <1>2. ASSUME NEW s \in Sources, NEW d \in Dates, NEW v \in Totals, WriteInstalls(s, d, v)
        PROVE  Fresh'
    <2>1. v \in Nat
      OBVIOUS
    <2>2. installs' \in [Sources -> [Dates -> Nat \union {NoRow}]] /\ paid' = paid
      BY <1>2, <2>1 DEF WriteInstalls, Fresh
    <2>3. stale' = TRUE /\ \A j \in Jobs : job'[j] # Idle => job'[j].clean = FALSE
      BY <1>1, <1>2 DEF WriteInstalls
    <2> QED
      BY <2>2, <2>3 DEF Fresh, Idle
  <1>3. ASSUME NEW d \in Dates, NEW v \in Spent, WritePaid(d, v)
        PROVE  Fresh'
    <2>1. v \in Nat
      OBVIOUS
    <2>2. paid' \in [Dates -> Nat \union {NoRow}] /\ installs' = installs
      BY <1>3, <2>1 DEF WritePaid, Fresh
    <2>3. stale' = TRUE /\ \A j \in Jobs : job'[j] # Idle => job'[j].clean = FALSE
      BY <1>1, <1>3 DEF WritePaid
    <2> QED
      BY <2>2, <2>3 DEF Fresh, Idle
  <1>4. ASSUME NEW j \in Jobs, NEW days \in Windows, Begin(j, days)
        PROVE  Fresh'
    <2> DEFINE alone == \A i \in Jobs : job[i] = Idle
    <2>1. /\ job'[j].clean = alone /\ job'[j].got = {} /\ job'[j].phase = "read"
          /\ \A i \in Jobs \ {j} : job'[i] = IF job[i] = Idle THEN Idle
                                             ELSE [job[i] EXCEPT !.clean = FALSE]
      BY <1>4 DEF Begin, Disturbed
    <2>2. stale' = TRUE /\ UNCHANGED <<installs, paid, organic>>
      BY <1>4 DEF Begin
    <2>3. alone \in BOOLEAN
      OBVIOUS
    <2>4. ASSUME NEW i \in Jobs \ {j}, job'[i] # Idle PROVE job'[i].clean = FALSE
      <3>1. job[i] # Idle /\ job'[i] = [job[i] EXCEPT !.clean = FALSE]
        BY <2>1, <2>4
      <3>2. DOMAIN job[i] = Fields
        BY <1>d, <3>1 DEF Domains
      <3> QED
        BY <3>1, <3>2 DEF Fields
    <2>5. Current(job'[j], installs, paid, organic)
      BY <2>1 DEF Current
    <2>6. alone => \A i \in Jobs \ {j} : job'[i] = Idle
      BY <2>1
    <2> HIDE DEF alone
    <2>7. job'[j].clean \in BOOLEAN /\ (job'[j].clean = TRUE => \A i \in Jobs \ {j} : job'[i] = Idle)
      BY <2>1, <2>3, <2>6
    <2> QED
      BY <2>2, <2>4, <2>5, <2>7 DEF Fresh, Idle
  <1>5. ASSUME NEW j \in Jobs, ReadInstalls(j)
        PROVE  Fresh'
    <2>1. job[j] # Idle /\ DOMAIN job[j] = Fields /\ job[j].phase = "read"
      BY <1>5, <1>d DEF ReadInstalls, Idle, Domains
    <2>2. /\ job'[j].installs = [s \in Sources |-> Within(installs[s], job[j].window)]
          /\ job'[j].paid = job[j].paid /\ job'[j].phase = "read" /\ job'[j].clean = job[j].clean
          /\ job'[j].got = job[j].got \union {"installs"} /\ job'[j].window = job[j].window
      BY <1>5, <2>1, <1>d DEF ReadInstalls, Domains, Fields
    <2>3. /\ \A i \in Jobs \ {j} : job'[i] = job[i]
          /\ UNCHANGED <<installs, paid, organic, stale>>
      BY <1>5, <1>d DEF ReadInstalls, Domains
    <2>0. job[j].clean = TRUE => Current(job[j], installs, paid, organic)
      BY <2>1 DEF Fresh
    <2>4. job[j].clean = TRUE => Current(job'[j], installs, paid, organic)
      BY <2>0, <2>1, <2>2 DEF Current
    <2> QED
      BY <2>1, <2>2, <2>3, <2>4, AloneStep
  <1>6. ASSUME NEW j \in Jobs, ReadPaid(j)
        PROVE  Fresh'
    <2>1. job[j] # Idle /\ DOMAIN job[j] = Fields /\ job[j].phase = "read"
      BY <1>6, <1>d DEF ReadPaid, Idle, Domains
    <2>2. /\ job'[j].paid = Within(paid, job[j].window)
          /\ job'[j].installs = job[j].installs /\ job'[j].phase = "read"
          /\ job'[j].clean = job[j].clean
          /\ job'[j].got = job[j].got \union {"paid"} /\ job'[j].window = job[j].window
      BY <1>6, <2>1, <1>d DEF ReadPaid, Domains, Fields
    <2>3. /\ \A i \in Jobs \ {j} : job'[i] = job[i]
          /\ UNCHANGED <<installs, paid, organic, stale>>
      BY <1>6, <1>d DEF ReadPaid, Domains
    <2>0. job[j].clean = TRUE => Current(job[j], installs, paid, organic)
      BY <2>1 DEF Fresh
    <2>4. job[j].clean = TRUE => Current(job'[j], installs, paid, organic)
      BY <2>0, <2>1, <2>2 DEF Current
    <2> QED
      BY <2>1, <2>2, <2>3, <2>4, AloneStep
  <1>7. ASSUME NEW j \in Jobs, Decide(j)
        PROVE  Fresh'
    <2>1. job[j] # Idle /\ DOMAIN job[j] = Fields /\ job[j].got = {"installs", "paid"}
      BY <1>7, <1>d DEF Decide, HasRead, Idle, Domains
    <2>2. /\ job'[j].installs = job[j].installs /\ job'[j].paid = job[j].paid
          /\ job'[j].got = job[j].got /\ job'[j].window = job[j].window
          /\ job'[j].clean = job[j].clean
          /\ job'[j].todo = Derivable(job[j].installs, job[j].paid)
      BY <1>7, <2>1, <1>d DEF Decide, Domains, Fields
    <2>3. /\ \A i \in Jobs \ {j} : job'[i] = job[i]
          /\ UNCHANGED <<installs, paid, organic, stale>>
      BY <1>7, <1>d DEF Decide, Domains
    <2>0. job[j].clean = TRUE => Current(job[j], installs, paid, organic)
      BY <2>1 DEF Fresh
    <2>4. job[j].clean = TRUE => Current(job'[j], installs, paid, organic)
      BY <2>0, <2>1, <2>2 DEF Current
    <2> QED
      BY <2>1, <2>2, <2>3, <2>4, AloneStep
  <1>8. ASSUME NEW j \in Jobs, NEW d \in Dates, Upsert(j, d)
        PROVE  Fresh'
    <2>1. job[j] # Idle /\ DOMAIN job[j] = Fields /\ job[j].phase = "write" /\ d \in job[j].todo
      BY <1>8, <1>d DEF Upsert, Idle, Domains
    <2>2. /\ job'[j].installs = job[j].installs /\ job'[j].paid = job[j].paid
          /\ job'[j].got = job[j].got /\ job'[j].window = job[j].window
          /\ job'[j].clean = job[j].clean /\ job'[j].phase = "write"
          /\ job'[j].todo = job[j].todo \ {d}
      BY <1>8, <2>1, <1>d DEF Upsert, Domains, Fields
    <2>3. /\ \A i \in Jobs \ {j} : job'[i] = job[i]
          /\ UNCHANGED <<installs, paid, stale>>
      BY <1>8, <1>d DEF Upsert, Domains
    <2>4. /\ organic'[d] = Organic(Preferred(job[j].installs)[d], job[j].paid[d])
          /\ \A e \in Dates \ {d} : organic'[e] = organic[e]
      BY <1>8, <1>d DEF Upsert, Domains
    <2>5. Derivable(job[j].installs, job[j].paid) \subseteq Dates
      BY DEF Derivable, Dated
    <2>0. job[j].clean = TRUE => Current(job[j], installs, paid, organic)
      BY <2>1 DEF Fresh
    <2>6. job[j].clean = TRUE => Current(job'[j], installs, paid, organic')
      BY <2>0, <2>1, <2>2, <2>4, <2>5 DEF Current
    <2> QED
      BY <2>1, <2>2, <2>3, <2>6, AloneStep
  <1>9. ASSUME NEW j \in Jobs, Decline(j)
        PROVE  Fresh'
    <2>1. job[j] # Idle /\ job[j].got = {"installs", "paid"} /\ Dated(job[j].paid) = {}
          /\ UNCHANGED <<installs, paid, organic>> /\ job' = [job EXCEPT ![j] = Idle]
          /\ stale' = ~(job[j].clean /\ job[j].window = Dates)
      BY <1>9 DEF Decline, HasRead, Ends, Idle
    <2>2. stale' \in BOOLEAN /\ (stale' = FALSE => job[j].clean = TRUE /\ job[j].window = Dates)
      BY <2>1 DEF Fresh
    <2>3. ASSUME stale' = FALSE, NEW d \in Dates PROVE organic'[d] = Expected(d)
      <3>1. job[j].paid = paid
        BY <2>1, <2>2, <2>3, ReadAll DEF Fresh
      <3>2. d \notin Derivable(installs, paid)
        BY <2>1, <3>1 DEF Derivable, Span
      <3>3. Expected(d) = NoRow
        BY <3>2, ExpectedRow
      <3>4. organic[d] = NoRow
        BY <1>d, <2>1, <3>1 DEF OnlyKnownDays
      <3> QED
        BY <2>1, <3>3, <3>4
    <2> QED
      BY <1>d, <2>1, <2>2, <2>3, EndStep
  <1>10. ASSUME NEW j \in Jobs, DropStale(j)
         PROVE  Fresh'
    <2>1. job[j] # Idle /\ job[j].phase = "write" /\ job[j].todo = {}
          /\ UNCHANGED <<installs, paid>> /\ job' = [job EXCEPT ![j] = Idle]
          /\ stale' = ~(job[j].clean /\ job[j].window = Dates)
      BY <1>10 DEF DropStale, Ends, Idle
    <2>2. stale' \in BOOLEAN /\ (stale' = FALSE => job[j].clean = TRUE /\ job[j].window = Dates)
      BY <2>1 DEF Fresh
    <2>3. ASSUME stale' = FALSE, NEW d \in Dates PROVE organic'[d] = Expected(d)
      <3>1. Current(job[j], installs, paid, organic)
        BY <2>1, <2>2, <2>3 DEF Fresh
      <3>2. job[j].got = {"installs", "paid"}
        BY <2>1, <3>1 DEF Current
      <3>3. job[j].installs = installs /\ job[j].paid = paid
        BY <2>2, <2>3, <3>1, <3>2, ReadAll
      <3>4. organic'[d] = IF d \in Dates \ Derivable(installs, paid) THEN NoRow ELSE organic[d]
        BY <1>10, <2>2, <2>3, <3>3 DEF DropStale, Dropped
      <3>5. d \in Derivable(installs, paid) =>
                organic[d] = Organic(Preferred(installs)[d], paid[d])
        BY <2>1, <3>1, <3>3 DEF Current
      <3> QED
        BY <3>4, <3>5, ExpectedRow
    <2> QED
      BY <1>d, <2>1, <2>2, <2>3, EndStep
  <1>11. ASSUME NEW j \in Jobs, Crash(j)
         PROVE  Fresh'
    <2>1. job[j] # Idle /\ UNCHANGED <<installs, paid>> /\ job' = [job EXCEPT ![j] = Idle]
          /\ stale' = TRUE
      BY <1>11 DEF Crash
    <2> QED
      BY <1>d, <2>1, EndStep
  <1> QED
    BY <1>0, <1>2, <1>3, <1>4, <1>5, <1>6, <1>7, <1>8, <1>9, <1>10, <1>11 DEF Next

\* A derivation over all days that nothing has disturbed leaves the rows that are defined,
\* whatever earlier ones have written.
THEOREM OrganicSettles == ASSUME Ranked PROVE Spec => []Settled
  <1>1. Fresh => Settled
    BY DEF Fresh, Settled, UpToDate
  <1> QED
    BY <1>1, InitInv, NextInv, InitFresh, FreshStep, PTL DEF Spec

-----------------------------------------------------------------------------
(* The groups of a member's terms.  The terms still without a cluster are  *)
(* searched no more than any centre and relate to none: that is what the   *)
(* greedy order keeps, and what makes the next centre relate to none of    *)
(* the centres before it.                                                  *)

\* What two terms share is the same from either side.
LEMMA EvidenceSymmetric == \A a, b : K!Evidence(a, b) = K!Evidence(b, a)
<1> SUFFICES ASSUME NEW a, NEW b PROVE K!Evidence(a, b) = K!Evidence(b, a)
    OBVIOUS
<1>1. K!Prefixes(a) \intersect K!Prefixes(b) = K!Prefixes(b) \intersect K!Prefixes(a)
    OBVIOUS
<1>2. K!PrefixScore(a, b) = K!PrefixScore(b, a)
    BY <1>1 DEF K!PrefixScore
<1>3. /\ Words[a] \union Words[b] = Words[b] \union Words[a]
      /\ Words[a] \intersect Words[b] = Words[b] \intersect Words[a]
    OBVIOUS
<1>4. K!TokenOverlap(a, b) = K!TokenOverlap(b, a)
    BY <1>3 DEF K!TokenOverlap
<1>5. topApps[a] \intersect topApps[b] = topApps[b] \intersect topApps[a]
    OBVIOUS
<1>6. K!SerpOverlap(a, b) = K!SerpOverlap(b, a)
    BY <1>5 DEF K!SerpOverlap
<1> QED
    BY <1>2, <1>4, <1>6 DEF K!Evidence

\* So relating is symmetric.
LEMMA RelatedSymmetric == \A a, b : K!Related(a, b) <=> K!Related(b, a)
BY EvidenceSymmetric DEF K!Related

\* The invariant that the loop over the centres keeps.
Ordered ==
    \A c \in K!Centres : \A t \in K!Remaining : ~K!Related(c, t) /\ demand[t] <= demand[c]

Greedy ==
    /\ demand \in [Term -> Int]
    /\ star \in [Term -> SUBSET asked]
    /\ asked \subseteq Term
    /\ Ordered /\ K!Stars /\ K!CentresApart

\* No terms are grouped at first.
LEMMA GreedyInit == K!Init => Greedy
<1> SUFFICES ASSUME K!Init PROVE Greedy
    OBVIOUS
<1>1. K!Centres = {}
    BY DEF K!Init, K!Centres
<1>2. demand \in [Term -> Int]
    BY DEF K!Init
<1> QED
    BY <1>1, <1>2 DEF K!Init, Greedy, Ordered, K!Stars, K!CentresApart

\* Every step keeps it: a new cluster, and what is observed or asked before the first.
LEMMA GreedyStep == ASSUME Greedy, [K!Next]_K!vars PROVE Greedy'
<1>1. ASSUME NEW c \in Term, K!Centre(c) PROVE Greedy'
  <2> USE <1>1
  <2> DEFINE New == {t \in K!Remaining : t = c \/ K!Joins(c, t)}
  <2>1. star' = [star EXCEPT ![c] = New] /\ c \in K!Remaining /\ c \in New
      BY DEF K!Centre
  <2>2. UNCHANGED <<demand, discovery, signals, topApps, asked>>
      BY DEF K!Centre
  <2>3. star[c] = {}
    <3>1. c \notin star[c]
        BY <2>1 DEF K!Remaining, K!Taken
    <3> QED
        BY <3>1 DEF Greedy, K!Stars, K!Centres
  <2>4. K!Centres' = K!Centres \union {c} /\ c \notin K!Centres
      BY <2>1, <2>3 DEF K!Centres, Greedy
  <2>5. star'[c] = New /\ \A d \in K!Centres : star'[d] = star[d]
      BY <2>1, <2>4 DEF Greedy, K!Centres
  <2>6. \A a, b : K!Related(a, b)' <=> K!Related(a, b)
      BY <2>2 DEF K!Related, K!Relatedness, K!Best, K!Corroborating, K!Evidence, K!SerpOverlap, K!PrefixScore,
                  K!Prefixes, K!TokenOverlap
  <2>7. K!Remaining' = K!Remaining \ New
    <3>1. K!Taken' = K!Taken \union New
        BY <2>1, <2>3 DEF K!Taken, Greedy
    <3> QED
        BY <2>2, <3>1 DEF K!Remaining
  <2>8. \A d \in K!Centres : star[d] \intersect New = {}
      BY DEF K!Remaining, K!Taken, K!Centres
  <2>9. \A d \in K!Centres : ~K!Related(d, c) /\ ~K!Related(c, d) /\ demand[c] <= demand[d]
      BY <2>1, RelatedSymmetric DEF Greedy, Ordered
  <2>10. \A t \in K!Remaining : demand[t] <= demand[c]
      BY DEF K!Centre
  <2>11. demand \in [Term -> Int] /\ K!Centres \subseteq Term /\ K!Remaining \subseteq Term
      BY DEF Greedy, K!Centres, K!Remaining
  <2>12. (demand \in [Term -> Int] /\ star \in [Term -> SUBSET asked] /\ asked \subseteq Term)'
      BY <2>1, <2>2 DEF Greedy, K!Remaining
  <2>13. Ordered'
    <3> SUFFICES ASSUME NEW d \in K!Centres', NEW t \in K!Remaining'
                 PROVE  ~K!Related(d, t) /\ demand[t] <= demand[d]
        BY <2>2, <2>6 DEF Ordered
    <3>1. CASE d \in K!Centres
        BY <3>1, <2>7 DEF Greedy, Ordered
    <3>2. CASE d = c
        BY <3>2, <2>7, <2>10 DEF K!Joins
    <3> QED
        BY <3>1, <3>2, <2>4
  <2>14. K!Stars'
    <3> SUFFICES ASSUME NEW e \in K!Centres'
                 PROVE  /\ e \in star'[e]
                        /\ \A t \in star'[e] \ {e} : K!Related(e, t) /\ demand[t] <= demand[e]
                        /\ \A d \in K!Centres', t \in star'[e] : K!Related(d, t) => demand[d] <= demand[e]
                        /\ \A d \in K!Centres' \ {e} : star'[e] \intersect star'[d] = {}
        BY <2>2, <2>6 DEF K!Stars, K!Members
    <3>1. CASE e \in K!Centres
      <4>1. \A t \in star[e] : demand[t] <= demand[e] /\ t \in Term
          BY <3>1, <2>11 DEF Greedy, K!Stars, K!Members, K!Centres
      <4>2. \A t \in star'[e] : K!Related(c, t) => demand[c] <= demand[e]
          BY <3>1, <2>9
      <4> QED
          BY <3>1, <4>1, <4>2, <2>4, <2>5, <2>8 DEF Greedy, K!Stars, K!Members
    <3>2. CASE e = c
      <4>1. \A d \in K!Centres, t \in New : ~K!Related(d, t)
          BY DEF Greedy, Ordered
      <4>2. \A t \in New \ {c} : K!Related(c, t) /\ demand[t] <= demand[c]
          BY <2>10 DEF K!Joins
      <4>3. demand[c] <= demand[c]
          BY <2>11
      <4> QED
          BY <3>2, <4>1, <4>2, <4>3, <2>1, <2>4, <2>5, <2>8
    <3> QED
        BY <3>1, <3>2, <2>4
  <2>15. K!CentresApart'
    <3> SUFFICES ASSUME NEW a \in K!Centres', NEW b \in K!Centres', a # b PROVE ~K!Related(a, b)
        BY <2>6 DEF K!CentresApart
    <3>1. CASE a \in K!Centres /\ b \in K!Centres
        BY <3>1 DEF Greedy, K!CentresApart
    <3> QED
        BY <3>1, <2>4, <2>9
  <2> QED
      BY <2>12, <2>13, <2>14, <2>15 DEF Greedy
<1>2. ASSUME UNCHANGED <<star, demand>>, asked = {} \/ UNCHANGED <<asked, signals, topApps>>,
             asked' \subseteq Term, asked \subseteq asked'
      PROVE  Greedy'
  <2>1. CASE asked = {}
    <3>1. K!Centres = {} /\ K!Centres' = {}
        BY <1>2, <2>1 DEF Greedy, K!Centres
    <3> QED
        BY <3>1, <1>2 DEF Greedy, Ordered, K!Stars, K!CentresApart
  <2>2. CASE UNCHANGED <<asked, signals, topApps>>
    <3>1. \A a, b : K!Related(a, b)' <=> K!Related(a, b)
        BY <2>2 DEF K!Related, K!Relatedness, K!Best, K!Corroborating, K!Evidence, K!SerpOverlap, K!PrefixScore,
                    K!Prefixes, K!TokenOverlap
    <3>2. K!Centres' = K!Centres /\ K!Remaining' = K!Remaining
        BY <1>2, <2>2 DEF K!Centres, K!Remaining, K!Taken
    <3>3. Ordered' /\ K!CentresApart'
        BY <1>2, <3>1, <3>2 DEF Greedy, Ordered, K!CentresApart
    <3>4. K!Stars'
        BY <1>2, <3>1, <3>2 DEF Greedy, K!Stars, K!Members
    <3> QED
        BY <1>2, <2>2, <3>3, <3>4 DEF Greedy
  <2> QED
      BY <1>2, <2>1, <2>2
<1>3. ASSUME NEW ts \in SUBSET Term, NEW p \in Prefix, K!CrawlPrefix(p, ts) PROVE Greedy'
    BY <1>2, <1>3 DEF K!CrawlPrefix, K!Observe, Greedy
<1>4. ASSUME NEW ts \in SUBSET Term, NEW c \in Chart, K!MineCategory(c, ts) PROVE Greedy'
    BY <1>2, <1>4 DEF K!MineCategory, K!Observe, Greedy
<1>5. ASSUME NEW ts \in SUBSET Term, K!Cluster(ts) PROVE Greedy'
    BY <1>2, <1>5 DEF K!Cluster, Greedy
<1>6. ASSUME NEW t \in Term, NEW offered \in BOOLEAN, K!Validate(t, offered) PROVE Greedy'
    BY <1>2, <1>6 DEF K!Validate, K!Observe, Greedy
<1>7. ASSUME NEW t \in Term, NEW top \in Tops, K!ScoreCompetition(t, top) PROVE Greedy'
    BY <1>2, <1>7 DEF K!ScoreCompetition, K!Observe, Greedy
<1>8. ASSUME UNCHANGED K!vars PROVE Greedy'
    BY <1>2, <1>8 DEF K!vars, Greedy
<1> QED
    BY <1>1, <1>3, <1>4, <1>5, <1>6, <1>7, <1>8 DEF K!Next

-----------------------------------------------------------------------------
(* A short prefix is not enough: what it adds up to stays under the        *)
(* threshold where neither the words nor the results reach the floor.      *)

Context == Prefix \union Chart \union Term \union {Country}

\* The prefixes and names have lengths, and a term finitely many words and apps.
Measured ==
    /\ \A p \in Context : Length[p] \in Nat
    /\ \A t \in Term : IsFiniteSet(Words[t])
    /\ \A top \in Tops : IsFiniteSet(top)

\* The contexts of signals and the apps that rank are such.
Observed ==
    /\ DOMAIN signals = Term /\ \A t \in Term : K!Prefixes(t) \subseteq Context
    /\ topApps \in [Term -> Tops \union {{}}]

\* The count of the module is the library's.
LEMMA SameCount == ASSUME NEW S PROVE K!Cardinality(S) = Cardinality(S)
BY DEF K!Cardinality, Cardinality

\* A set of weights has a greatest.
LEMMA GreatestOfThree ==
    ASSUME NEW S, S # {}, S \subseteq {60, 240, 480}
    PROVE  K!Max(S) \in S
<1>1. \A y \in S : y = 60 \/ y = 240 \/ y = 480
    OBVIOUS
<1>2. \E x \in S : \A y \in S : x >= y
  <2>1. CASE 480 \in S
      BY <1>1, <2>1
  <2>2. CASE 480 \notin S /\ 240 \in S
      BY <1>1, <2>2
  <2>3. CASE 480 \notin S /\ 240 \notin S
    <3>1. PICK x : x \in S
        OBVIOUS
    <3>2. \A y \in S : y = 60
        BY <1>1, <2>3
    <3> QED
        BY <3>1, <3>2
  <2> QED
      BY <2>1, <2>2, <2>3
<1> QED
    BY <1>2 DEF K!Max

\* Four characters weigh less than the threshold.
LEMMA StemsWeighLittle ==
    ASSUME Measured, Observed, NEW a \in Term, NEW b \in Term,
           \A p \in K!Prefixes(a) \intersect K!Prefixes(b) : ~(Length[p] > K!Shortest)
    PROVE  K!PrefixScore(a, b) \in {0, 60, 240, 480}
<1> DEFINE shared == K!Prefixes(a) \intersect K!Prefixes(b)
           weights == {K!PrefixWeight(p) : p \in shared}
<1>1. ASSUME NEW p \in shared PROVE K!PrefixWeight(p) \in {60, 240, 480}
  <2>1. Length[p] \in Nat /\ Length[p] <= 4
    <3>1. p \in Context
        BY <1>1 DEF Observed
    <3> QED
        BY <1>1, <3>1 DEF Measured, K!Shortest
  <2>2. K!Unit \div 5 = 240 /\ K!Unit \div 20 = 60 /\ K!Unit = 1200
      BY DEF K!Unit
  <2>3. Length[p] \in {0, 1, 2, 3, 4}
      BY <2>1
  <2>4. K!PrefixWeight(p) = K!AtLeast(K!AtMost((Length[p] - 2) * 240, 1200), 60)
      BY <2>2 DEF K!PrefixWeight
  <2> QED
      BY <2>3, <2>4 DEF K!AtLeast, K!AtMost
<1>2. CASE shared = {}
    BY <1>2 DEF K!PrefixScore
<1>3. CASE shared # {}
  <2>1. weights # {} /\ weights \subseteq {60, 240, 480}
      BY <1>1, <1>3
  <2>2. K!Max(weights) \in weights
      BY <2>1, GreatestOfThree
  <2>3. K!PrefixScore(a, b) = K!Max(weights)
      BY <1>3 DEF K!PrefixScore
  <2> QED
      BY <2>1, <2>2, <2>3
<1> QED
    BY <1>2, <1>3

\* The overlaps are whole numbers.
LEMMA OverlapsCount ==
    ASSUME Measured, Observed, NEW a \in Term, NEW b \in Term
    PROVE  K!SerpOverlap(a, b) \in Int /\ K!TokenOverlap(a, b) \in Int
<1>1. IsFiniteSet(topApps[a])
    BY FS_EmptySet DEF Measured, Observed
<1>2. Cardinality(topApps[a] \intersect topApps[b]) \in Nat
    BY <1>1, FS_Intersection, FS_CardinalityType
<1>3. K!SerpOverlap(a, b) \in Int
  <2>1. K!Unit \div K!SERP_TARGET = 240 /\ K!Unit = 1200
      BY DEF K!Unit, K!SERP_TARGET
  <2> QED
      BY <1>2, <2>1, SameCount DEF K!SerpOverlap, K!AtMost
<1> DEFINE all == Words[a] \union Words[b]
<1>4. IsFiniteSet(all) /\ IsFiniteSet(Words[a] \intersect Words[b])
    BY FS_Union, FS_Intersection DEF Measured
<1>5. Cardinality(all) \in Nat /\ Cardinality(Words[a] \intersect Words[b]) \in Nat
    BY <1>4, FS_CardinalityType
<1>6. K!TokenOverlap(a, b) \in Int
  <2>1. CASE all = {}
      BY <2>1 DEF K!TokenOverlap
  <2>2. CASE all # {}
    <3>1. Cardinality(all) > 0
        BY <1>4, <1>5, <2>2, FS_EmptySet
    <3>2. (K!Unit * Cardinality(Words[a] \intersect Words[b])) \in Nat
        BY <1>5 DEF K!Unit
    <3>3. ((K!Unit * Cardinality(Words[a] \intersect Words[b])) \div Cardinality(all)) \in Int
        BY <1>5, <3>1, <3>2
    <3> QED
        BY <2>2, <3>3, SameCount DEF K!TokenOverlap
  <2> QED
      BY <2>1, <2>2
<1> QED
    BY <1>3, <1>6

\* Evidence of one kind under the threshold, and no other at the floor, relates nothing.
LEMMA LoneEvidenceIsWeak ==
    ASSUME NEW x \in Int, NEW y \in {0, 60, 240, 480}, NEW z \in Int, x < 360, z < 360
    PROVE  ~(K!Relatedness([results |-> x, prefix |-> y, words |-> z]) >= K!Threshold)
<1> DEFINE e == [results |-> x, prefix |-> y, words |-> z]
<1>1. e["results"] = x /\ e["prefix"] = y /\ e["words"] = z
    OBVIOUS
<1> DEFINE top == IF x >= y /\ x >= z THEN "results" ELSE IF y >= z THEN "prefix" ELSE "words"
<1>2. top \in K!Reasons /\ \A o \in K!Reasons : e[o] <= e[top]
    BY <1>1 DEF K!Reasons
<1> HIDE DEF e, top
<1> DEFINE best == K!Best(e)
<1>3. best \in K!Reasons /\ \A o \in K!Reasons : e[o] <= e[best]
    BY <1>2 DEF K!Best
<1> HIDE DEF best
<1>4. e[best] \in Int /\ e[best] <= 480
    BY <1>1, <1>3 DEF K!Reasons
<1>5. \A r \in K!Reasons \ {best} : ~(e[r] >= 360)
    BY <1>1, <1>3 DEF K!Reasons
<1>6. K!Corroborating(e) = {}
    BY <1>5 DEF K!Corroborating, K!Floor, best
<1>7. K!Cardinality(K!Corroborating(e)) = 0
    BY <1>6, FS_EmptySet, SameCount
<1>8. K!Relatedness(e) = K!AtMost(e[best] + K!Corroboration * 0, K!Unit)
    BY <1>7 DEF K!Relatedness, best
<1> QED
    BY <1>4, <1>8 DEF K!AtMost, K!Corroboration, K!Unit, K!Threshold, e

\* Members of a group are not there for a stem alone.
LEMMA StemsGroupNobody ==
    ASSUME Measured, Observed, Greedy
    PROVE  K!NoStemAlone
<1> SUFFICES ASSUME NEW c \in K!Centres, NEW t \in K!Members(c),
                    \A p \in K!Prefixes(c) \intersect K!Prefixes(t) : ~(Length[p] > K!Shortest),
                    ~(K!SerpOverlap(c, t) >= K!Floor), ~(K!TokenOverlap(c, t) >= K!Floor)
             PROVE  FALSE
    BY DEF K!NoStemAlone
<1>1. c \in Term /\ t \in Term /\ K!Related(c, t)
    BY DEF Greedy, K!Stars, K!Centres, K!Members
<1>2. K!PrefixScore(c, t) \in {0, 60, 240, 480}
    BY <1>1, StemsWeighLittle
<1>3. K!SerpOverlap(c, t) \in Int /\ K!TokenOverlap(c, t) \in Int
    BY <1>1, OverlapsCount
<1>4. K!SerpOverlap(c, t) < 360 /\ K!TokenOverlap(c, t) < 360
    BY <1>3 DEF K!Floor
<1> QED
    BY <1>1, <1>2, <1>3, <1>4, LoneEvidenceIsWeak DEF K!Related, K!Evidence

\* What is observed stays measurable.
LEMMA ObservedInit == K!Init => Observed
BY DEF K!Init, Observed, K!Prefixes

\* Observed is inductive.
LEMMA ObservedStep == ASSUME Observed, [K!Next]_K!vars PROVE Observed'
<1>1. ASSUME NEW ts \in SUBSET Term, NEW source, NEW context \in Context,
             K!Signal(ts, source, context)
      PROVE  DOMAIN signals' = Term /\ \A t \in Term : K!Prefixes(t)' \subseteq Context
  <2>1. signals' = [t \in Term |-> IF t \in ts THEN signals[t] \union {<<source, context>>}
                                   ELSE signals[t]]
      BY <1>1 DEF K!Signal
  <2>2. ASSUME NEW t \in Term, NEW s \in signals'[t] PROVE s[2] \in Context
    <3>1. s \in signals[t] \/ s = <<source, context>>
        BY <2>1, <2>2
    <3> QED
        BY <3>1, <2>2 DEF Observed, K!Prefixes
  <2> QED
      BY <2>1, <2>2 DEF K!Prefixes
<1>2. ASSUME NEW ts \in SUBSET Term, NEW p \in Prefix, K!CrawlPrefix(p, ts) PROVE Observed'
    BY <1>1, <1>2 DEF K!CrawlPrefix, Observed, Context
<1>3. ASSUME NEW ts \in SUBSET Term, NEW c \in Chart, K!MineCategory(c, ts) PROVE Observed'
    BY <1>1, <1>3 DEF K!MineCategory, Observed, Context
<1>4. ASSUME NEW ts \in SUBSET Term, K!Cluster(ts) PROVE Observed'
    BY <1>4 DEF K!Cluster, Observed, K!Prefixes
<1>5. ASSUME NEW t \in Term, NEW offered \in BOOLEAN, K!Validate(t, offered) PROVE Observed'
  <2> DEFINE new == signals[t] \union {<<"SUGGEST_CONTAINS", t>>}
                               \union IF offered THEN {<<"SUGGEST_RANK", t>>} ELSE {}
  <2>1. signals' = [signals EXCEPT ![t] = new] /\ topApps' = topApps
      BY <1>5 DEF K!Validate
  <2>2. \A s \in new : s[2] \in Context
      BY DEF Observed, K!Prefixes, Context
  <2>3. DOMAIN signals' = Term /\ \A u \in Term : signals'[u] = IF u = t THEN new ELSE signals[u]
      BY <2>1 DEF Observed
  <2> HIDE DEF new
  <2>4. \A u \in Term : K!Prefixes(u)' \subseteq Context
      BY <2>2, <2>3 DEF Observed, K!Prefixes
  <2> QED
      BY <2>1, <2>3, <2>4 DEF Observed
<1>6. ASSUME NEW t \in Term, NEW top \in Tops, K!ScoreCompetition(t, top) PROVE Observed'
  <2>1. K!Signal({t}, "RESULT_COUNT", Country) /\ topApps' = [topApps EXCEPT ![t] = top]
      BY <1>6 DEF K!ScoreCompetition
  <2>2. topApps' \in [Term -> Tops \union {{}}]
      BY <2>1 DEF Observed
  <2> QED
      BY <1>1, <2>1, <2>2 DEF Observed, Context
<1>7. ASSUME NEW t \in Term, K!Centre(t) PROVE Observed'
    BY <1>7 DEF K!Centre, Observed, K!Prefixes
<1>8. ASSUME UNCHANGED K!vars PROVE Observed'
    BY <1>8 DEF K!vars, Observed, K!Prefixes
<1> QED
    BY <1>2, <1>3, <1>4, <1>5, <1>6, <1>7, <1>8 DEF K!Next

\* The clusters are stars around what is searched most, no term is in two of them, the
\* centres of two do not relate, and nobody is in one for a short prefix alone.
THEOREM ClustersStar == ASSUME Measured PROVE K!Spec => [](K!ClustersAreStars /\ ClustersAreStars)
<1>1. Greedy /\ Observed => K!ClustersAreStars
    BY StemsGroupNobody DEF Greedy, K!ClustersAreStars
<1>2. K!ClustersAreStars => ClustersAreStars
    BY DEF ClustersAreStars
<1> QED
    BY <1>2, <1>1, GreedyInit, GreedyStep, ObservedInit, ObservedStep, PTL DEF K!Spec

-----------------------------------------------------------------------------
(* The reply to a review.  What a request is about to write the store has  *)
(* taken, and what a sync is about to write the store has shown; it shows  *)
(* it still unless something was published since the sync fetched it.      *)

Reply == Text \union {None}

RepliesInv ==
    /\ shop \in accepted /\ row \in accepted \union {V!Absent} /\ accepted \subseteq Reply
    /\ request \in [Slot -> [at : {"idle", "publish", "write"}, text : Reply]]
    /\ \A s \in Slot :
        /\ request[s].at = "publish" => request[s].text \in Text
        /\ request[s].at = "write" => request[s].text \in accepted
    /\ sync \in [Sync -> [at : {"idle", "upsert"}, text : Reply]]
    /\ \A x \in Sync : sync[x].at = "upsert" =>
        /\ sync[x].text \in accepted
        /\ x \notin missed => sync[x].text = shop
    /\ repaired => row = shop

\* Nobody has answered at first.
LEMMA RepliesInit == V!Init => RepliesInv
BY DEF V!Init, V!Idle, RepliesInv, Reply

\* A request that goes on, or a sync, changes its own record.
LEMMA RequestStep ==
    ASSUME RepliesInv, NEW s \in Slot, NEW new \in [at : {"idle", "publish", "write"}, text : Reply],
           request' = [request EXCEPT ![s] = new]
    PROVE  /\ request' \in [Slot -> [at : {"idle", "publish", "write"}, text : Reply]]
           /\ \A r \in Slot : request'[r] = IF r = s THEN new ELSE request[r]
BY DEF RepliesInv

\* What becomes of the syncs when one takes a step.
LEMMA SyncStep ==
    ASSUME RepliesInv, NEW x \in Sync, NEW new \in [at : {"idle", "upsert"}, text : Reply],
           sync' = [sync EXCEPT ![x] = new]
    PROVE  /\ sync' \in [Sync -> [at : {"idle", "upsert"}, text : Reply]]
           /\ \A y \in Sync : sync'[y] = IF y = x THEN new ELSE sync[y]
BY DEF RepliesInv

\* What is published is accepted, and every sync that runs has missed it.
LEMMA ShownStep ==
    ASSUME RepliesInv, NEW t \in Text, V!Shown(t), UNCHANGED <<row, sync>>,
           request' \in [Slot -> [at : {"idle", "publish", "write"}, text : Reply]],
           \A s \in Slot : /\ request'[s].at = "publish" => request'[s].text \in Text
                           /\ request'[s].at = "write" => request'[s].text \in accepted \union {t}
    PROVE  RepliesInv'
<1>1. shop' = t /\ accepted' = accepted \union {t} /\ repaired' = FALSE
    BY DEF V!Shown
<1>2. \A x \in Sync : sync[x].at = "upsert" => x \in missed'
    BY DEF V!Shown, V!Idle
<1> QED
    BY <1>1, <1>2 DEF RepliesInv, Reply

\* RepliesInv is inductive.
LEMMA RepliesStep == ASSUME RepliesInv, [V!Next]_V!vars PROVE RepliesInv'
<1> USE DEF Reply
<1>0. V!Idle \in [at : {"idle", "publish", "write"}, text : Reply] /\ V!Idle.at = "idle"
      /\ V!Idle \in [at : {"idle", "upsert"}, text : Reply]
    BY DEF V!Idle
<1>1. ASSUME NEW s \in Slot, NEW t \in Text, V!Reply(s, t) PROVE RepliesInv'
  <2> DEFINE new == [at |-> "publish", text |-> t]
  <2>1. new \in [at : {"idle", "publish", "write"}, text : Reply] /\ new.at = "publish" /\ new.text = t
      OBVIOUS
  <2>2. request' = [request EXCEPT ![s] = new] /\ UNCHANGED <<shop, row, sync, accepted, missed, repaired>>
      BY <1>1 DEF V!Reply, V!Begun
  <2> HIDE DEF new
  <2> QED
      BY <2>1, <2>2, RequestStep DEF RepliesInv
<1>2. ASSUME NEW s \in Slot, V!Publish(s) PROVE RepliesInv'
  <2> DEFINE new == [at |-> "write", text |-> request[s].text]
  <2>1. request[s].at = "publish" /\ request[s].text \in Text /\ V!Shown(request[s].text)
        /\ UNCHANGED <<row, sync>>
      BY <1>2 DEF V!Publish, RepliesInv
  <2>2. new \in [at : {"idle", "publish", "write"}, text : Reply] /\ new.at = "write"
        /\ new.text = request[s].text
      BY <2>1
  <2>3. request' = [request EXCEPT ![s] = new]
    <3>1. [request[s] EXCEPT !.at = "write"] = new
        BY DEF RepliesInv
    <3> QED
        BY <1>2, <3>1 DEF V!Publish
  <2> HIDE DEF new
  <2>4. /\ request' \in [Slot -> [at : {"idle", "publish", "write"}, text : Reply]]
        /\ \A r \in Slot : request'[r] = IF r = s THEN new ELSE request[r]
      BY <2>2, <2>3, RequestStep
  <2>5. \A r \in Slot : /\ request'[r].at = "publish" => request'[r].text \in Text
                        /\ request'[r].at = "write" => request'[r].text \in accepted \union {request[s].text}
      BY <2>2, <2>4 DEF RepliesInv
  <2> QED
      BY <2>1, <2>4, <2>5, ShownStep
<1>3. ASSUME NEW s \in Slot, V!PublishFails(s) PROVE RepliesInv'
  <2>1. request[s].at = "publish" /\ request[s].text \in Text /\ UNCHANGED <<row, sync>>
        /\ request' = [request EXCEPT ![s] = V!Idle]
      BY <1>3 DEF V!PublishFails, RepliesInv
  <2>2. /\ request' \in [Slot -> [at : {"idle", "publish", "write"}, text : Reply]]
        /\ \A r \in Slot : request'[r] = IF r = s THEN V!Idle ELSE request[r]
      BY <1>0, <2>1, RequestStep
  <2>3. \A r \in Slot : /\ request'[r].at = "publish" => request'[r].text \in Text
                        /\ request'[r].at = "write" => request'[r].text \in accepted
      BY <1>0, <2>2 DEF RepliesInv
  <2>4. CASE V!Shown(request[s].text)
      BY <2>1, <2>2, <2>3, <2>4, ShownStep
  <2>5. CASE UNCHANGED <<shop, accepted, missed, repaired>>
      BY <2>1, <2>2, <2>3, <2>5 DEF RepliesInv
  <2> QED
      BY <1>3, <2>4, <2>5 DEF V!PublishFails
<1>4. ASSUME NEW s \in Slot, V!Write(s) \/ V!WriteFails(s) PROVE RepliesInv'
  <2>1. request[s].at = "write" /\ request' = [request EXCEPT ![s] = V!Idle]
        /\ UNCHANGED <<shop, sync, accepted, missed>>
      BY <1>4 DEF V!Write, V!WriteFails
  <2>0. row' \in {row, request[s].text} /\ (repaired' => row' = shop)
    <3>1. CASE V!Write(s)
      <4>1. row' = request[s].text
          BY <3>1 DEF V!Write
      <4>2. repaired' => row' = shop
          BY <3>1, Zenon DEF V!Write
      <4> QED
          BY <4>1, <4>2
    <3>2. CASE V!WriteFails(s)
        BY <3>2 DEF V!WriteFails, RepliesInv
    <3> QED
        BY <1>4, <3>1, <3>2
  <2>2. /\ request' \in [Slot -> [at : {"idle", "publish", "write"}, text : Reply]]
        /\ \A r \in Slot : request'[r] = IF r = s THEN V!Idle ELSE request[r]
      BY <1>0, <2>1, RequestStep
  <2>3. row' \in accepted \union {V!Absent}
      BY <2>0, <2>1 DEF RepliesInv
  <2> QED
      BY <1>0, <2>0, <2>1, <2>2, <2>3 DEF RepliesInv
<1>5. ASSUME NEW t \in Text, V!AtStore(t) PROVE RepliesInv'
    BY <1>5, ShownStep DEF V!AtStore, RepliesInv
<1>6. ASSUME NEW x \in Sync, V!Fetch(x) PROVE RepliesInv'
  <2> DEFINE new == [at |-> "upsert", text |-> shop]
  <2>1. new \in [at : {"idle", "upsert"}, text : Reply] /\ new.text = shop /\ new.at = "upsert"
      BY DEF RepliesInv
  <2>2. sync' = [sync EXCEPT ![x] = new] /\ missed' = missed \ {x}
        /\ UNCHANGED <<shop, row, request, accepted, repaired>>
      BY <1>6 DEF V!Fetch
  <2> HIDE DEF new
  <2>3. /\ sync' \in [Sync -> [at : {"idle", "upsert"}, text : Reply]]
        /\ \A y \in Sync : sync'[y] = IF y = x THEN new ELSE sync[y]
      BY <2>1, <2>2, SyncStep
  <2>4. \A y \in Sync : sync'[y].at = "upsert" =>
            sync'[y].text \in accepted /\ (y \notin missed' => sync'[y].text = shop)
      BY <2>1, <2>2, <2>3 DEF RepliesInv
  <2> QED
      BY <2>2, <2>3, <2>4 DEF RepliesInv
<1>7. ASSUME NEW x \in Sync, V!Upsert(x) \/ V!SyncCut(x) PROVE RepliesInv'
  <2>1. sync[x].at = "upsert" /\ sync' = [sync EXCEPT ![x] = V!Idle]
        /\ UNCHANGED <<shop, request, accepted, missed>>
      BY <1>7 DEF V!Upsert, V!SyncCut
  <2>2. row' \in accepted \union {V!Absent} /\ (repaired' => row' = shop)
    <3>1. CASE V!Upsert(x)
      <4>1. row' = sync[x].text /\ (repaired' => x \notin missed)
          BY <3>1 DEF V!Upsert, V!Upserted
      <4>2. sync[x].text \in accepted /\ (x \notin missed => sync[x].text = shop)
          BY <2>1 DEF RepliesInv
      <4> QED
          BY <4>1, <4>2
    <3>2. CASE V!SyncCut(x)
        BY <3>2 DEF V!SyncCut, RepliesInv
    <3> QED
        BY <1>7, <3>1, <3>2
  <2>3. /\ sync' \in [Sync -> [at : {"idle", "upsert"}, text : Reply]]
        /\ \A y \in Sync : sync'[y] = IF y = x THEN V!Idle ELSE sync[y]
      BY <1>0, <2>1, SyncStep
  <2>4. \A y \in Sync : sync'[y].at = "upsert" =>
            sync'[y].text \in accepted /\ (y \notin missed => sync'[y].text = shop)
      BY <1>0, <2>3 DEF RepliesInv
  <2> QED
      BY <2>1, <2>2, <2>3, <2>4 DEF RepliesInv
<1>8. ASSUME UNCHANGED V!vars PROVE RepliesInv'
    BY <1>8 DEF V!vars, RepliesInv
<1> QED
    BY <1>1, <1>2, <1>3, <1>4, <1>5, <1>6, <1>7, <1>8 DEF V!Next

\* What is shown as the developer's reply the store has accepted, and it is what the store
\* shows once a sync has written what it fetched after the last publication.
THEOREM RepliesStayTrue == V!Spec => [](V!RepliesTrue /\ RepliesTrue)
<1>1. RepliesInv => V!RepliesTrue
    BY DEF RepliesInv, V!RepliesTrue
<1>2. V!RepliesTrue => RepliesTrue
    BY DEF RepliesTrue
<1> QED
    BY <1>2, <1>1, RepliesInit, RepliesStep, PTL DEF V!Spec

-----------------------------------------------------------------------------
(* The push tokens of a phone.  Whatever registers while it counts on its  *)
(* row is its own newer registration, and verdicts are on tokens the phone *)
(* no longer has.                                                          *)

TokenRow == [id : Nat, session : Session, token : Token, ok : BOOLEAN]
Registration == [session : Session, token : Token, phase : {"clear", "upsert"}]

DeviceTypes ==
    /\ tokens \subseteq TokenRow /\ requests \subseteq Registration /\ send \subseteq TokenRow
    /\ phone \in [session : Session \union {None}, token : Token, told : BOOLEAN]
    /\ counts \in [{"registrations", "sends", "troubles", "rows"} -> Nat]

OwnRow == \E x \in tokens : x.session = phone.session /\ x.token = phone.token /\ x.ok = TRUE

DeviceInv ==
    /\ DeviceTypes
    /\ phone.token \notin dead
    /\ \A v \in verdicts : v.token \in dead
    /\ phone.told = TRUE /\ spoiled = FALSE =>
        (\A q \in requests : q.session = phone.session /\ q.token = phone.token) /\ OwnRow
    /\ spoiled \in BOOLEAN

\* Nothing is registered at first.
LEMMA DeviceInit == D!Init => DeviceInv
<1> SUFFICES ASSUME D!Init PROVE DeviceInv
    OBVIOUS
<1>1. PICK t \in Token : phone = [session |-> None, token |-> t, told |-> FALSE]
    BY DEF D!Init
<1>2. /\ dead = {} /\ tokens = {} /\ requests = {} /\ send = {} /\ verdicts = {} /\ spoiled = FALSE
      /\ counts = [b \in {"registrations", "sends", "troubles", "rows"} |-> 0]
    BY DEF D!Init
<1> QED
    BY <1>1, <1>2 DEF DeviceInv, DeviceTypes

\* A spent allowance stays a number.
LEMMA SpendTyped ==
    ASSUME DeviceTypes, NEW b \in {"registrations", "sends", "troubles", "rows"}, NEW limit,
           D!Spend(b, limit)
    PROVE  counts' \in [{"registrations", "sends", "troubles", "rows"} -> Nat]
BY DEF D!Spend, DeviceTypes

\* A phone that signs out, has a new token or is asked to forget counts on nothing.
LEMMA UntoldStep ==
    ASSUME DeviceInv, UNCHANGED <<requests, send, verdicts, spoiled>>, dead \subseteq dead',
           phone'.told = FALSE, phone'.token \notin dead',
           phone' \in [session : Session \union {None}, token : Token, told : BOOLEAN],
           tokens' \subseteq tokens,
           counts' \in [{"registrations", "sends", "troubles", "rows"} -> Nat]
    PROVE  DeviceInv'
BY DEF DeviceInv, DeviceTypes

\* Someone signs in or out, a session is revoked, or the phone is given another token.
LEMMA PhoneStep ==
    ASSUME DeviceInv,
           \/ \E s \in Session : D!SignIn(s) \/ D!Revoke(s)
           \/ D!SignOut \/ (\E t \in Token : D!NewToken(t)) \/ D!Unregister
    PROVE  DeviceInv'
<1>0. phone \in [session : Session \union {None}, token : Token, told : BOOLEAN]
      /\ phone.token \notin dead /\ DeviceTypes
    BY DEF DeviceInv, DeviceTypes
<1>1. ASSUME NEW s \in Session, D!SignIn(s) PROVE DeviceInv'
  <2>1. phone' = [phone EXCEPT !.session = s, !.told = FALSE]
        /\ UNCHANGED <<dead, tokens, requests, send, verdicts, spoiled, counts>>
      BY <1>1 DEF D!SignIn
  <2>2. phone'.told = FALSE /\ phone'.token = phone.token
        /\ phone' \in [session : Session \union {None}, token : Token, told : BOOLEAN]
      BY <1>0, <2>1
  <2> QED
      BY <1>0, <2>1, <2>2, UntoldStep DEF DeviceTypes
<1>2. ASSUME NEW s \in Session, D!Revoke(s) PROVE DeviceInv'
  <2>1. counts' \in [{"registrations", "sends", "troubles", "rows"} -> Nat]
      BY <1>0, <1>2, SpendTyped DEF D!Revoke
  <2> QED
      BY <1>2, <2>1 DEF D!Revoke, DeviceInv, DeviceTypes, OwnRow
<1>3. ASSUME D!SignOut PROVE DeviceInv'
  <2>1. phone' = [phone EXCEPT !.session = None, !.told = FALSE]
        /\ UNCHANGED <<dead, tokens, requests, send, verdicts, spoiled>>
      BY <1>3 DEF D!SignOut
  <2>2. phone'.told = FALSE /\ phone'.token = phone.token
        /\ phone' \in [session : Session \union {None}, token : Token, told : BOOLEAN]
      BY <1>0, <2>1
  <2>3. counts' \in [{"registrations", "sends", "troubles", "rows"} -> Nat]
      BY <1>0, <1>3, SpendTyped DEF D!SignOut, DeviceTypes
  <2> QED
      BY <1>0, <2>1, <2>2, <2>3, UntoldStep
<1>4. ASSUME NEW t \in Token, D!NewToken(t) PROVE DeviceInv'
  <2>1. PICK s \in {phone.session, None} : phone' = [session |-> s, token |-> t, told |-> FALSE]
      BY <1>4 DEF D!NewToken
  <2>2. /\ t \notin dead' /\ dead' = dead \union {phone.token}
        /\ UNCHANGED <<tokens, requests, send, verdicts, spoiled>>
      BY <1>4 DEF D!NewToken
  <2>3. phone'.told = FALSE /\ phone'.token = t
        /\ phone' \in [session : Session \union {None}, token : Token, told : BOOLEAN]
      BY <1>0, <2>1
  <2>4. counts' \in [{"registrations", "sends", "troubles", "rows"} -> Nat]
      BY <1>0, <1>4, SpendTyped DEF D!NewToken
  <2> QED
      BY <2>2, <2>3, <2>4, UntoldStep
<1>5. ASSUME D!Unregister PROVE DeviceInv'
  <2>1. /\ phone' = [phone EXCEPT !.told = FALSE] /\ tokens' \subseteq tokens
        /\ UNCHANGED <<dead, requests, send, verdicts, spoiled>>
      BY <1>5 DEF D!Unregister
  <2>2. phone'.told = FALSE /\ phone'.token = phone.token
        /\ phone' \in [session : Session \union {None}, token : Token, told : BOOLEAN]
      BY <1>0, <2>1
  <2>3. counts' \in [{"registrations", "sends", "troubles", "rows"} -> Nat]
      BY <1>0, <1>5, SpendTyped DEF D!Unregister
  <2> QED
      BY <1>0, <2>1, <2>2, <2>3, UntoldStep
<1> QED
    BY <1>1, <1>2, <1>3, <1>4, <1>5

\* A registration frees its token from other sessions and then has a row of its own.
LEMMA RegistrationStep ==
    ASSUME DeviceInv,
           D!Register \/ \E r \in requests : D!Clear(r) \/ D!Upsert(r) \/ D!UpsertConflicts(r)
    PROVE  DeviceInv'
<1>0. DeviceTypes /\ spoiled \in BOOLEAN
    BY DEF DeviceInv
<1>1. ASSUME D!Register PROVE DeviceInv'
  <2> DEFINE r == [session |-> phone.session, token |-> phone.token, phase |-> "clear"]
  <2>1. /\ phone.session # None /\ requests' = requests \union {r}
        /\ UNCHANGED <<session, phone, dead, tokens, send, verdicts, spoiled>>
      BY <1>1 DEF D!Register
  <2>2. r \in Registration /\ r.session = phone.session /\ r.token = phone.token
      BY <1>0, <2>1 DEF DeviceTypes, Registration
  <2> HIDE DEF r
  <2>3. counts' \in [{"registrations", "sends", "troubles", "rows"} -> Nat]
      BY <1>0, <1>1, SpendTyped DEF D!Register
  <2>4. DeviceTypes'
      BY <1>0, <2>1, <2>2, <2>3 DEF DeviceTypes
  <2>5. OwnRow' <=> OwnRow
      BY <2>1 DEF OwnRow
  <2> QED
      BY <2>1, <2>2, <2>4, <2>5 DEF DeviceInv
<1>2. ASSUME NEW r \in requests, D!Clear(r) PROVE DeviceInv'
  <2> DEFINE next == [r EXCEPT !.phase = "upsert"]
  <2>1. /\ requests' = (requests \ {r}) \union {next}
        /\ tokens' = {x \in tokens : x.token # r.token \/ x.session = r.session}
        /\ UNCHANGED <<session, phone, dead, send, verdicts, spoiled, counts>>
      BY <1>2 DEF D!Clear, D!ClearHolders
  <2>2. next \in Registration /\ next.session = r.session /\ next.token = r.token
      BY <1>0 DEF DeviceTypes, Registration
  <2> HIDE DEF next
  <2>3. DeviceTypes'
      BY <1>0, <2>1, <2>2 DEF DeviceTypes
  <2>4. ASSUME phone.told = TRUE, spoiled = FALSE
        PROVE  (\A q \in requests' : q.session = phone.session /\ q.token = phone.token) /\ OwnRow'
    <3>1. (\A q \in requests : q.session = phone.session /\ q.token = phone.token) /\ OwnRow
        BY <2>4 DEF DeviceInv
    <3>2. OwnRow'
        BY <2>1, <3>1 DEF OwnRow
    <3> QED
        BY <2>1, <2>2, <3>1, <3>2
  <2> QED
      BY <2>1, <2>3, <2>4 DEF DeviceInv
<1>3. ASSUME NEW r \in requests, D!Upsert(r) PROVE DeviceInv'
  <2> DEFINE own == {x \in tokens : x.session = r.session}
             fresh == [id |-> counts["rows"], session |-> r.session, token |-> r.token, ok |-> TRUE]
  <2>1. r \in Registration /\ counts["rows"] \in Nat
      BY <1>0 DEF DeviceTypes
  <2>2. fresh \in TokenRow /\ fresh.session = r.session /\ fresh.token = r.token /\ fresh.ok = TRUE
      BY <2>1 DEF TokenRow, Registration
  <2>3. \A x \in own : /\ D!Updated(x, r.token) \in TokenRow
                       /\ D!Updated(x, r.token).session = r.session
                       /\ D!Updated(x, r.token).token = r.token
                       /\ D!Updated(x, r.token).ok = TRUE
      BY <1>0, <2>1 DEF DeviceTypes, TokenRow, Registration, D!Updated
  <2>4. D!Own(r) = own
      BY DEF D!Own
  <2>5. /\ requests' = requests \ {r} /\ UNCHANGED <<dead, send, verdicts>>
        /\ IF D!Current(r) THEN phone' = [phone EXCEPT !.told = TRUE] /\ spoiled' = (requests' # {})
                           ELSE UNCHANGED <<phone, spoiled>>
      BY <1>3 DEF D!Upsert
  <2>6. /\ tokens' \subseteq TokenRow
        /\ \E x \in tokens' : x.session = r.session /\ x.token = r.token /\ x.ok = TRUE
        /\ counts' \in [{"registrations", "sends", "troubles", "rows"} -> Nat]
    <3>1. CASE own # {}
      <4>1. counts' = counts /\ tokens' = (tokens \ own) \union {D!Updated(x, r.token) : x \in own}
          BY <1>3, <2>4, <3>1 DEF D!Upsert
      <4> HIDE DEF own
      <4>2. PICK x : x \in own
          BY <3>1
      <4>3. tokens' \subseteq TokenRow
          BY <1>0, <2>3, <4>1 DEF DeviceTypes
      <4>4. D!Updated(x, r.token) \in tokens'
          BY <4>1, <4>2
      <4> QED
          BY <1>0, <2>3, <4>1, <4>2, <4>3, <4>4 DEF DeviceTypes
    <3>2. CASE own = {}
      <4>1. counts' = [counts EXCEPT !["rows"] = @ + 1] /\ tokens' = tokens \union {fresh}
          BY <1>3, <2>4, <3>2 DEF D!Upsert
      <4> HIDE DEF fresh
      <4> QED
          BY <1>0, <2>1, <2>2, <4>1 DEF DeviceTypes
    <3> QED
        BY <3>1, <3>2
  <2>7. CASE D!Current(r)
    <3>1. phone' = [phone EXCEPT !.told = TRUE] /\ (spoiled' = FALSE => requests' = {})
          /\ spoiled' \in BOOLEAN
        BY <2>5, <2>7
    <3>2. /\ phone'.session = phone.session /\ phone'.token = phone.token
          /\ phone' \in [session : Session \union {None}, token : Token, told : BOOLEAN]
        BY <1>0, <3>1 DEF DeviceTypes
    <3>3. r.session = phone.session /\ r.token = phone.token
        BY <2>7 DEF D!Current
    <3>4. OwnRow'
        BY <2>6, <3>2, <3>3 DEF OwnRow
    <3>5. DeviceTypes'
        BY <1>0, <2>5, <2>6, <3>2 DEF DeviceTypes
    <3> QED
        BY <2>5, <3>1, <3>2, <3>4, <3>5 DEF DeviceInv
  <2>8. CASE ~D!Current(r)
    <3>1. UNCHANGED <<phone, spoiled>>
        BY <2>5, <2>8
    <3>2. ~(phone.told = TRUE /\ spoiled = FALSE)
        BY <2>8 DEF D!Current, DeviceInv
    <3>3. DeviceTypes'
        BY <1>0, <2>5, <2>6, <3>1 DEF DeviceTypes
    <3> QED
        BY <2>5, <3>1, <3>2, <3>3 DEF DeviceInv
  <2> QED
      BY <2>7, <2>8
<1>4. ASSUME NEW r \in requests, D!UpsertConflicts(r) PROVE DeviceInv'
    BY <1>4 DEF D!UpsertConflicts, DeviceInv, DeviceTypes, OwnRow
<1> QED
    BY <1>1, <1>2, <1>3, <1>4

\* A send reads rows and retires some of tokens that are no more.
LEMMA SendStep ==
    ASSUME DeviceInv,
           D!Resolve \/ D!Post \/ \E v \in verdicts : D!Invalidate(v) \/ D!VerdictLost(v)
    PROVE  DeviceInv'
<1>0. DeviceTypes /\ spoiled \in BOOLEAN
    BY DEF DeviceInv
<1>1. CASE D!Resolve
  <2>1. counts' \in [{"registrations", "sends", "troubles", "rows"} -> Nat]
      BY <1>0, <1>1, SpendTyped DEF D!Resolve
  <2> QED
      BY <1>1, <2>1 DEF D!Resolve, DeviceInv, DeviceTypes, OwnRow
<1>2. CASE D!Post
  <2>1. \A v \in verdicts' : v.token \in dead
      BY <1>2 DEF D!Post, DeviceInv
  <2> QED
      BY <1>2, <2>1 DEF D!Post, DeviceInv, DeviceTypes, OwnRow
<1>3. ASSUME NEW v \in verdicts, D!Invalidate(v) PROVE DeviceInv'
  <2> DEFINE After(x) == IF x.id = v.id THEN [x EXCEPT !.ok = FALSE] ELSE x
  <2>1. /\ tokens' = {After(x) : x \in tokens}
        /\ verdicts' = verdicts \ {v}
        /\ spoiled' = (spoiled \/ \E x \in tokens : x.id = v.id /\ x.token # v.token)
        /\ UNCHANGED <<session, phone, dead, requests, send, counts>>
      BY <1>3 DEF D!Invalidate
  <2>2. \A x \in tokens : After(x) \in TokenRow
      BY <1>0 DEF DeviceTypes, TokenRow
  <2>3. DeviceTypes'
      BY <1>0, <2>1, <2>2 DEF DeviceTypes
  <2>4. spoiled' \in BOOLEAN /\ (spoiled' = FALSE =>
            spoiled = FALSE /\ \A x \in tokens : x.id = v.id => x.token = v.token)
      BY <1>0, <2>1
  <2>5. ASSUME phone.told = TRUE, spoiled' = FALSE
        PROVE  (\A q \in requests' : q.session = phone.session /\ q.token = phone.token) /\ OwnRow'
    <3>1. (\A q \in requests : q.session = phone.session /\ q.token = phone.token) /\ OwnRow
        BY <2>4, <2>5 DEF DeviceInv
    <3>2. PICK x \in tokens : x.session = phone.session /\ x.token = phone.token /\ x.ok = TRUE
        BY <3>1 DEF OwnRow
    <3>3. v.token # phone.token
        BY DEF DeviceInv
    <3>4. x.id # v.id
        BY <2>4, <2>5, <3>2, <3>3
    <3>5. x \in tokens'
        BY <2>1, <3>2, <3>4
    <3>6. OwnRow'
        BY <2>1, <3>2, <3>5 DEF OwnRow
    <3> QED
        BY <2>1, <3>1, <3>6
  <2> QED
      BY <2>1, <2>3, <2>4, <2>5 DEF DeviceInv
<1>4. ASSUME NEW v \in verdicts, D!VerdictLost(v) PROVE DeviceInv'
    BY <1>4 DEF D!VerdictLost, DeviceInv, DeviceTypes, OwnRow
<1> QED
    BY <1>1, <1>2, <1>3, <1>4

\* DeviceInv is inductive.
LEMMA DeviceStep == ASSUME DeviceInv, [D!Next]_D!vars PROVE DeviceInv'
<1>1. CASE UNCHANGED D!vars
    BY <1>1 DEF D!vars, DeviceInv, DeviceTypes, OwnRow
<1>2. CASE D!Next
    BY <1>2, PhoneStep, RegistrationStep, SendStep DEF D!Next
<1> QED
    BY <1>1, <1>2

\* A phone that was told it is registered has a live row with its token, unless an older
\* registration ran or a verdict on an older token came in.
THEOREM PhoneReachable == D!Spec => [](D!Reachable /\ Reachable)
<1>1. DeviceInv => D!Reachable
    BY DEF DeviceInv, DeviceTypes, OwnRow, D!Reachable
<1>2. D!Reachable => Reachable
    BY DEF Reachable
<1> QED
    BY <1>2, <1>1, DeviceInit, DeviceStep, PTL DEF D!Spec

-----------------------------------------------------------------------------
(* The storefronts of an app.  Who writes rows makes the requests in the   *)
(* air stale, and one that is stale and writes makes a race: up to the     *)
(* first race what a request has read of the rows is so when it writes.    *)

Listings == [front : Front \union {NoFront}, version : Nat]

Reqs ==
    [op : {"view", "sync", "add", "primary", "remove"}, on : Front \union {NoFront},
     phase : {"look", "ensure", "upsert", "add", "write", "fetch", "compare", "create"},
     stale : BOOLEAN, gone : BOOLEAN, main : Front \union {NoFront}, todo : SUBSET Front,
     listing : Listings, title : Listings]

FrontTypes ==
    /\ home \in Front
    /\ fronts \in [Front -> {"none", "secondary", "primary"}]
    /\ store \in [Front -> Nat]
    /\ req \in [Requests -> Reqs \union {A!Idle}]
    /\ asks \in [{"requests", "changes", "faults", "cuts", "updates"} -> Nat]
    /\ moved \in BOOLEAN /\ raced \in BOOLEAN

Reading == {"fetch", "compare", "create"}

\* What a request carries on the way.
Carried(r) ==
    /\ r.op \notin A!Asking => r.on \in Front
    /\ r.phase \in {"ensure", "upsert"} => r.op \notin A!Changing
    /\ r.phase = "upsert" => r.main \in Front
    /\ r.title = A!NoListing \/ (r.phase \in Reading /\ r.title.front = r.main)

\* What a request that is not stale has read.
Relied(r) ==
    /\ r.phase \in {"ensure", "upsert"} => A!Rows = {}
    /\ r.phase = "upsert" /\ asks["updates"] = 0 => r.main = home
    /\ r.phase = "add" => A!Rows # {}
    /\ r.phase = "write" => fronts[r.on] # "none" /\ (r.op = "remove" => fronts[r.on] = "secondary")
    /\ r.phase \in Reading /\ raced = FALSE => A!Primaries = {r.main}

\* Before it has storefronts an app is called as in its own country.
NamedAtHome ==
    A!Rows = {} /\ raced = FALSE /\ moved = FALSE /\ asks["updates"] = 0 => name.front = home

FrontInv ==
    /\ FrontTypes
    /\ \A s \in Requests : req[s] # A!Idle =>
        /\ Carried(req[s])
        /\ req[s].stale = FALSE => Relied(req[s])
    /\ A!OnePrimary /\ A!NameFollowsPrimary /\ NamedAtHome

\* The app has no storefronts at first.
LEMMA FrontInit == A!Init => FrontInv
  <1> SUFFICES ASSUME A!Init PROVE FrontInv
    OBVIOUS
  <1>1. \A s \in Requests : req[s] = A!Idle
    BY DEF A!Init
  <1>2. A!Rows = {}
    BY DEF A!Init, A!Rows
  <1>3. FrontTypes
    BY DEF A!Init, FrontTypes
  <1>4. name.front = home
    BY DEF A!Init
  <1> QED
    BY <1>1, <1>2, <1>3, <1>4 DEF FrontInv, A!OnePrimary, A!NameFollowsPrimary, NamedAtHome

\* A request is counted.
LEMMA AskTypes ==
    ASSUME asks \in [{"requests", "changes", "faults", "cuts", "updates"} -> Nat],
           NEW b \in {"requests", "changes", "faults", "cuts", "updates"}, A!Spend(b)
    PROVE  /\ asks' \in [{"requests", "changes", "faults", "cuts", "updates"} -> Nat]
           /\ b # "updates" => asks'["updates"] = asks["updates"]
           /\ b = "updates" => asks'["updates"] # 0
  BY DEF A!Spend

\* What the invariant says of one request.
LEMMA Asked ==
    ASSUME FrontInv, NEW s \in Requests, req[s] # A!Idle
    PROVE  req[s] \in Reqs /\ Carried(req[s]) /\ (req[s].stale = FALSE => Relied(req[s]))
  BY DEF FrontInv, FrontTypes

\* A request in a phase is one.
LEMMA InPhase ==
    ASSUME NEW s, NEW p, A!In(s, p)
    PROVE  req[s] # A!Idle /\ req[s].phase = p
  BY DEF A!In

\* A step that leaves rows and names alone.
LEMMA QuietStep ==
    ASSUME FrontInv, req' \in [Requests -> Reqs \union {A!Idle}],
           \A s \in Requests : req'[s] # A!Idle =>
             /\ Carried(req'[s])
             /\ req'[s].stale = FALSE => Relied(req'[s]),
           UNCHANGED <<home, name, fronts, moved, raced>>,
           store' \in [Front -> Nat],
           asks' \in [{"requests", "changes", "faults", "cuts", "updates"} -> Nat],
           asks'["updates"] = asks["updates"]
    PROVE  FrontInv'
  <1>1. FrontTypes'
    BY DEF FrontInv, FrontTypes
  <1>2. A!Rows' = A!Rows /\ A!Primaries' = A!Primaries
    BY DEF A!Rows, A!Primaries
  <1>3. A!OnePrimary' /\ A!NameFollowsPrimary' /\ NamedAtHome'
    BY <1>2 DEF FrontInv, A!OnePrimary, A!NameFollowsPrimary, NamedAtHome
  <1>4. ASSUME NEW s \in Requests, req'[s] # A!Idle
        PROVE  Carried(req[s])' /\ (req[s].stale = FALSE => Relied(req[s]))'
    BY <1>2, <1>4 DEF Carried, Relied
  <1> QED
    BY <1>1, <1>3, <1>4 DEF FrontInv

\* A step of one request that leaves them alone.
LEMMA QuietRequest ==
    ASSUME FrontInv, NEW s \in Requests, NEW new \in Reqs \union {A!Idle},
           req' = [req EXCEPT ![s] = new],
           new # A!Idle => Carried(new) /\ (new.stale = FALSE => Relied(new)),
           UNCHANGED <<home, name, fronts, store, moved, raced>>,
           asks' \in [{"requests", "changes", "faults", "cuts", "updates"} -> Nat],
           asks'["updates"] = asks["updates"]
    PROVE  FrontInv'
  <1>1. \A t \in Requests : req'[t] = IF t = s THEN new ELSE req[t]
    BY DEF FrontInv, FrontTypes
  <1>2. req' \in [Requests -> Reqs \union {A!Idle}]
    BY DEF FrontInv, FrontTypes
  <1>3. store' \in [Front -> Nat]
    BY DEF FrontInv, FrontTypes
  <1>4. \A t \in Requests : req'[t] # A!Idle =>
          Carried(req'[t]) /\ (req'[t].stale = FALSE => Relied(req'[t]))
    BY <1>1, Asked
  <1> QED
    BY <1>2, <1>3, <1>4, QuietStep

\* Who writes rows makes the others stale, and a race if it is stale itself.
LEMMA WriteStep ==
    ASSUME FrontInv, NEW s \in Requests, req[s] # A!Idle, NEW r \in Reqs \union {A!Idle},
           A!Wrote(s, r), home' \in Front, moved' \in BOOLEAN,
           fronts' \in [Front -> {"none", "secondary", "primary"}],
           UNCHANGED <<name, store, asks>>,
           r # A!Idle => Carried(r) /\ r.stale = req[s].stale,
           req[s].stale = FALSE /\ req'[s] # A!Idle => Relied(req[s])',
           req[s].stale = FALSE /\ raced = FALSE =>
             A!OnePrimary' /\ A!NameFollowsPrimary' /\ NamedAtHome'
    PROVE  FrontInv'
  <1>1. /\ req \in [Requests -> Reqs \union {A!Idle}] /\ raced \in BOOLEAN
        /\ req[s] \in Reqs
    BY DEF FrontInv, FrontTypes
  <1>2. \A t \in Requests :
          req'[t] = IF t = s THEN r ELSE IF req[t] = A!Idle THEN A!Idle
                    ELSE [req[t] EXCEPT !.stale = TRUE,
                                        !.gone = @ \/ (/\ req[t].op \in A!Changing
                                                       /\ fronts'[req[t].on] = "none")]
    BY DEF A!Wrote
  <1>3. ASSUME NEW t \in Requests, t # s
        PROVE  /\ req'[t] \in Reqs \union {A!Idle}
               /\ req'[t] # A!Idle => Carried(req'[t]) /\ req'[t].stale = TRUE
    <2>1. CASE req[t] = A!Idle
      BY <1>2, <1>3, <2>1
    <2>2. CASE req[t] # A!Idle
      <3> DEFINE q == req[t]
                 gone == q.gone \/ (q.op \in A!Changing /\ fronts'[q.on] = "none")
                 new == [q EXCEPT !.stale = TRUE, !.gone = gone]
      <3>1. q \in Reqs /\ Carried(q)
        BY <2>2, Asked
      <3>2. gone \in BOOLEAN
        OBVIOUS
      <3>3. req'[t] = new
        BY <1>2, <1>3, <2>2, <3>1 DEF Reqs
      <3> HIDE DEF gone
      <3>4. new \in Reqs
        BY <3>1, <3>2 DEF Reqs
      <3>5. /\ new.op = q.op /\ new.on = q.on /\ new.phase = q.phase /\ new.stale = TRUE
            /\ new.main = q.main /\ new.title = q.title
        BY <3>1 DEF Reqs
      <3> HIDE DEF new
      <3>6. Carried(new)
        BY <3>1, <3>5 DEF Carried
      <3> QED
        BY <3>3, <3>4, <3>5, <3>6
    <2> QED
      BY <2>1, <2>2
  <1>4. req' = [t \in Requests |-> req'[t]]
    BY DEF A!Wrote
  <1>5. req'[s] = r
    BY <1>2
  <1>6. req' \in [Requests -> Reqs \union {A!Idle}]
    BY <1>3, <1>4, <1>5
  <1>7. raced' = (raced \/ req[s].stale) /\ req[s].stale \in BOOLEAN
    BY <1>1 DEF A!Wrote, Reqs
  <1>8. FrontTypes'
    BY <1>6, <1>7 DEF FrontInv, FrontTypes
  <1>9. A!OnePrimary' /\ A!NameFollowsPrimary' /\ NamedAtHome'
    <2>1. CASE raced' = FALSE
      BY <1>1, <1>7, <2>1
    <2>2. CASE raced' = TRUE
      BY <2>2 DEF A!OnePrimary, A!NameFollowsPrimary, NamedAtHome
    <2> QED
      BY <1>7, <2>1, <2>2
  <1>10. ASSUME NEW t \in Requests, req'[t] # A!Idle
         PROVE  Carried(req[t])' /\ (req[t].stale = FALSE => Relied(req[t]))'
    <2>1. Carried(req'[t])
      BY <1>3, <1>5, <1>10
    <2>2. Carried(req[t])'
      BY <2>1 DEF Carried
    <2>3. CASE t = s
      <3>1. req'[s].stale = req[s].stale
        BY <1>5, <1>10, <2>3
      <3> QED
        BY <1>10, <2>2, <2>3, <3>1
    <2>4. CASE t # s
      <3>1. req'[t].stale # FALSE
        BY <1>3, <1>10, <2>4
      <3> QED
        BY <2>2, <3>1
    <2> QED
      BY <2>3, <2>4
  <1> QED
    BY <1>8, <1>9, <1>10 DEF FrontInv

\* Where appStorefronts leads to.
LEMMA ListedReq ==
    ASSUME NEW r \in Reqs, r.op \notin A!Changing, Carried(r), r.phase \notin Reading,
           NEW fs \in SUBSET Front, NEW m \in Front \union {NoFront},
           A!Listed(r, fs, m) # A!Idle
    PROVE  /\ A!Listed(r, fs, m) \in Reqs /\ Carried(A!Listed(r, fs, m))
           /\ A!Listed(r, fs, m).stale = r.stale
           /\ \/ A!Listed(r, fs, m).phase = "add"
              \/ A!Listed(r, fs, m).phase = "fetch" /\ A!Listed(r, fs, m).main = m
  <1> DEFINE new == A!Listed(r, fs, m)
  <1>1. r.op \in {"view", "add", "sync"}
    BY DEF Reqs, A!Changing
  <1>2. r.op # "view"
    BY DEF A!Listed
  <1>3. CASE r.op = "add"
    <2>1. new = [r EXCEPT !.phase = "add"]
      BY <1>3 DEF A!Listed
    <2>2. new \in Reqs
      BY <2>1 DEF Reqs
    <2>3. /\ new.phase = "add" /\ new.op = r.op /\ new.on = r.on /\ new.title = r.title
          /\ new.stale = r.stale
      BY <2>1 DEF Reqs
    <2> HIDE DEF new
    <2>4. Carried(new)
      BY <2>3 DEF Carried, Reading
    <2> QED
      BY <2>2, <2>3, <2>4 DEF new
  <1>4. CASE r.op = "sync"
    <2>1. new = [r EXCEPT !.phase = "fetch", !.todo = fs, !.main = m]
      BY <1>4 DEF A!Listed
    <2>2. new \in Reqs
      BY <2>1 DEF Reqs
    <2>3. /\ new.phase = "fetch" /\ new.op = r.op /\ new.on = r.on /\ new.title = r.title
          /\ new.stale = r.stale /\ new.main = m
      BY <2>1 DEF Reqs
    <2> HIDE DEF new
    <2>4. Carried(new)
      BY <2>3 DEF Carried, Reading
    <2> QED
      BY <2>2, <2>3, <2>4 DEF new
  <1> QED
    BY <1>1, <1>2, <1>3, <1>4

-----------------------------------------------------------------------------

\* A request begins and has read nothing.
LEMMA FrontBegin ==
    ASSUME FrontInv, NEW s \in Requests, NEW op \in {"view", "sync", "add", "primary", "remove"},
           NEW f \in Front \union {NoFront}, A!Begin(s, op, f)
    PROVE  FrontInv'
  <1> DEFINE new == [op |-> op, on |-> f, phase |-> "look", stale |-> FALSE, gone |-> FALSE,
                     main |-> NoFront, todo |-> {}, listing |-> A!NoListing, title |-> A!NoListing]
  <1>1. req' = [req EXCEPT ![s] = new] /\ (op \in A!Asking <=> f = NoFront) /\ A!Spend("requests")
    BY DEF A!Begin
  <1>2. UNCHANGED <<home, name, fronts, store, latest, moved, raced>>
    BY DEF A!Begin
  <1>3. A!NoListing \in Listings
    BY DEF A!NoListing, Listings
  <1>4. new \in Reqs
    BY <1>3 DEF Reqs
  <1>5. Carried(new) /\ Relied(new)
    BY <1>1 DEF Carried, Relied, Reading
  <1>6. asks' \in [{"requests", "changes", "faults", "cuts", "updates"} -> Nat]
        /\ asks'["updates"] = asks["updates"]
    BY <1>1, AskTypes DEF FrontInv, FrontTypes
  <1> HIDE DEF new
  <1> QED
    BY <1>1, <1>2, <1>4, <1>5, <1>6, QuietRequest

\* Until the first race there is one primary storefront.
LEMMA ThePrimary ==
    ASSUME FrontInv, raced = FALSE, A!Rows # {}
    PROVE  \E f \in Front : A!Primaries = {f}
  BY DEF FrontInv, A!OnePrimary

\* The storefronts are read.
LEMMA FrontLook ==
    ASSUME FrontInv, NEW s \in Requests, A!Look(s)
    PROVE  FrontInv'
  <1>1. req[s] # A!Idle /\ req[s].phase = "look" /\ req[s].op \notin A!Changing
    BY InPhase DEF A!Look
  <1>2. req[s] \in Reqs /\ Carried(req[s])
    BY <1>1, Asked
  <1>3. UNCHANGED <<home, name, fronts, store, latest, moved, raced, asks>>
    BY DEF A!Look
  <1>4. asks' \in [{"requests", "changes", "faults", "cuts", "updates"} -> Nat]
        /\ asks'["updates"] = asks["updates"]
    BY <1>3 DEF FrontInv, FrontTypes
  <1>5. CASE A!Rows = {}
    <2> DEFINE new == [req[s] EXCEPT !.phase = "ensure"]
    <2>1. req' = [req EXCEPT ![s] = new]
      BY <1>5 DEF A!Look, A!Goes
    <2>2. new \in Reqs
      BY <1>2 DEF Reqs
    <2>3. /\ new.phase = "ensure" /\ new.op = req[s].op /\ new.on = req[s].on
          /\ new.title = req[s].title
      BY <1>2 DEF Reqs
    <2> HIDE DEF new
    <2>4. Carried(new) /\ Relied(new)
      BY <1>1, <1>2, <1>5, <2>3 DEF Carried, Relied, Reading
    <2> QED
      BY <1>3, <1>4, <2>1, <2>2, <2>4, QuietRequest
  <1>6. CASE A!Rows # {}
    <2>1. PICK main \in IF A!Primaries = {} THEN {NoFront} ELSE A!Primaries :
            req' = [req EXCEPT ![s] = A!Listed(req[s], A!Rows, main)]
      BY <1>6 DEF A!Look
    <2> DEFINE new == A!Listed(req[s], A!Rows, main)
    <2>2. A!Rows \in SUBSET Front /\ main \in Front \union {NoFront}
      BY DEF A!Rows, A!Primaries
    <2>3. new # A!Idle => /\ new \in Reqs /\ Carried(new)
                          /\ new.phase = "add" \/ (new.phase = "fetch" /\ new.main = main)
      BY <1>1, <1>2, <2>2, ListedReq DEF Reading
    <2>4. raced = FALSE => A!Primaries = {main}
      BY <1>6, ThePrimary
    <2> HIDE DEF new
    <2>5. new # A!Idle => Relied(new)
      BY <1>6, <2>3, <2>4 DEF Relied, Reading
    <2> QED
      BY <1>3, <1>4, <2>1, <2>3, <2>5, QuietRequest DEF new
  <1> QED
    BY <1>5, <1>6

\* Without storefronts the app's own country is read.
LEMMA FrontReadHome ==
    ASSUME FrontInv, NEW s \in Requests, A!ReadHome(s)
    PROVE  FrontInv'
  <1>1. req[s] # A!Idle /\ req[s].phase = "ensure"
    BY InPhase DEF A!ReadHome
  <1>2. req[s] \in Reqs /\ Carried(req[s]) /\ (req[s].stale = FALSE => Relied(req[s]))
    BY <1>1, Asked
  <1>3. UNCHANGED <<home, name, fronts, store, latest, moved, raced, asks>>
    BY DEF A!ReadHome
  <1>4. asks' \in [{"requests", "changes", "faults", "cuts", "updates"} -> Nat]
        /\ asks'["updates"] = asks["updates"] /\ home \in Front
    BY <1>3 DEF FrontInv, FrontTypes
  <1> DEFINE new == [req[s] EXCEPT !.phase = "upsert", !.main = home]
  <1>5. req' = [req EXCEPT ![s] = new]
    BY DEF A!ReadHome
  <1>6. new \in Reqs
    BY <1>2, <1>4 DEF Reqs
  <1>7. /\ new.phase = "upsert" /\ new.op = req[s].op /\ new.on = req[s].on
        /\ new.title = req[s].title /\ new.main = home /\ new.stale = req[s].stale
    BY <1>2 DEF Reqs
  <1> HIDE DEF new
  <1>8. Carried(new) /\ (new.stale = FALSE => Relied(new))
    BY <1>1, <1>2, <1>4, <1>7 DEF Carried, Relied, Reading
  <1> QED
    BY <1>3, <1>4, <1>5, <1>6, <1>8, QuietRequest

\* The app's own country becomes its first storefront.
LEMMA FrontUpsert ==
    ASSUME FrontInv, NEW s \in Requests, A!UpsertPrimary(s)
    PROVE  FrontInv'
  <1> DEFINE m == req[s].main
             new == A!Listed(req[s], {m}, m)
  <1>1. req[s] # A!Idle /\ req[s].phase = "upsert"
    BY InPhase DEF A!UpsertPrimary
  <1>2. req[s] \in Reqs /\ Carried(req[s]) /\ (req[s].stale = FALSE => Relied(req[s]))
    BY <1>1, Asked
  <1>3. fronts' = [fronts EXCEPT ![m] = "primary"] /\ A!Wrote(s, new)
    BY DEF A!UpsertPrimary
  <1>4. UNCHANGED <<home, name, store, latest, moved, asks>>
    BY DEF A!UpsertPrimary
  <1>5. m \in Front /\ req[s].op \notin A!Changing
    BY <1>1, <1>2 DEF Carried
  <1>6. fronts \in [Front -> {"none", "secondary", "primary"}] /\ home \in Front
        /\ moved \in BOOLEAN
    BY DEF FrontInv, FrontTypes
  <1>7. \A f \in Front : fronts'[f] = IF f = m THEN "primary" ELSE fronts[f]
    BY <1>3, <1>5, <1>6
  <1>8. fronts' \in [Front -> {"none", "secondary", "primary"}]
    BY <1>3, <1>6
  <1>9. new # A!Idle => /\ new \in Reqs /\ Carried(new) /\ new.stale = req[s].stale
                        /\ new.phase = "add" \/ (new.phase = "fetch" /\ new.main = m)
    BY <1>1, <1>2, <1>5, ListedReq DEF Reading
  <1>10. req'[s] = new
    BY <1>3 DEF A!Wrote
  <1> HIDE DEF new
  <1>11. ASSUME req[s].stale = FALSE
         PROVE  /\ A!Rows = {} /\ A!Rows' # {} /\ A!Primaries' = {m}
                /\ asks["updates"] = 0 => m = home
    <2>1. A!Rows = {} /\ (asks["updates"] = 0 => m = home)
      BY <1>1, <1>2, <1>11 DEF Relied
    <2>2. \A f \in Front : fronts[f] = "none"
      BY <2>1 DEF A!Rows
    <2> QED
      BY <1>5, <1>7, <2>1, <2>2 DEF A!Rows, A!Primaries
  <1>12. req[s].stale = FALSE /\ req'[s] # A!Idle => Relied(req[s])'
    BY <1>9, <1>10, <1>11 DEF Relied, Reading
  <1>13. ASSUME req[s].stale = FALSE, raced = FALSE
         PROVE  A!OnePrimary' /\ A!NameFollowsPrimary' /\ NamedAtHome'
    <2>1. moved = FALSE /\ asks["updates"] = 0 => name.front = m
      BY <1>11, <1>13 DEF FrontInv, NamedAtHome
    <2> QED
      BY <1>4, <1>5, <1>6, <1>11, <1>13, <2>1 DEF A!OnePrimary, A!NameFollowsPrimary, NamedAtHome
  <1> QED
    BY <1>1, <1>3, <1>4, <1>6, <1>8, <1>9, <1>12, <1>13, WriteStep

\* Another storefront is no primary one.
LEMMA FrontAdd ==
    ASSUME FrontInv, NEW s \in Requests, A!AddLocale(s)
    PROVE  FrontInv'
  <1> DEFINE f == req[s].on
  <1>1. req[s] # A!Idle /\ req[s].phase = "add"
    BY InPhase DEF A!AddLocale
  <1>2. req[s].stale = FALSE => Relied(req[s])
    BY <1>1, Asked
  <1>3. fronts' = [fronts EXCEPT ![f] = IF @ = "none" THEN "secondary" ELSE @]
        /\ A!Wrote(s, A!Idle)
    BY DEF A!AddLocale
  <1>4. UNCHANGED <<home, name, store, latest, moved, asks>>
    BY DEF A!AddLocale
  <1>5. fronts \in [Front -> {"none", "secondary", "primary"}] /\ home \in Front
        /\ moved \in BOOLEAN
    BY DEF FrontInv, FrontTypes
  <1>6. fronts' \in [Front -> {"none", "secondary", "primary"}]
    BY <1>3, <1>5
  <1>7. \A g \in Front : fronts'[g] = IF g = f /\ fronts[g] = "none" THEN "secondary" ELSE fronts[g]
    BY <1>3, <1>5
  <1>8. A!Primaries' = A!Primaries /\ A!Rows \subseteq A!Rows'
    BY <1>5, <1>7 DEF A!Primaries, A!Rows
  <1>9. req'[s] = A!Idle
    BY <1>3 DEF A!Wrote
  <1>10. ASSUME req[s].stale = FALSE, raced = FALSE
         PROVE  A!OnePrimary' /\ A!NameFollowsPrimary' /\ NamedAtHome'
    <2>1. A!Rows # {}
      BY <1>1, <1>2, <1>10 DEF Relied
    <2> QED
      BY <1>4, <1>8, <1>10, <2>1 DEF FrontInv, A!OnePrimary, A!NameFollowsPrimary, NamedAtHome
  <1> QED
    BY <1>1, <1>3, <1>4, <1>5, <1>6, <1>9, <1>10, WriteStep

\* The storefront that is to be changed is looked up.
LEMMA FrontLookTarget ==
    ASSUME FrontInv, NEW s \in Requests, A!LookTarget(s)
    PROVE  FrontInv'
  <1>1. req[s] # A!Idle /\ req[s].phase = "look" /\ req[s].op \in A!Changing
    BY InPhase DEF A!LookTarget
  <1>2. req[s] \in Reqs /\ Carried(req[s])
    BY <1>1, Asked
  <1>3. UNCHANGED <<home, name, fronts, store, latest, moved, raced, asks>>
    BY DEF A!LookTarget
  <1>4. asks' \in [{"requests", "changes", "faults", "cuts", "updates"} -> Nat]
        /\ asks'["updates"] = asks["updates"]
    BY <1>3 DEF FrontInv, FrontTypes
  <1> DEFINE new == [req[s] EXCEPT !.phase = "write"]
  <1>5. new \in Reqs
    BY <1>2 DEF Reqs
  <1>6. /\ new.phase = "write" /\ new.op = req[s].op /\ new.on = req[s].on
        /\ new.title = req[s].title
    BY <1>2 DEF Reqs
  <1>7. \/ req' = [req EXCEPT ![s] = A!Idle]
        \/ /\ req' = [req EXCEPT ![s] = new]
           /\ fronts[req[s].on] \in IF req[s].op = "primary" THEN {"primary", "secondary"} ELSE {"secondary"}
    BY DEF A!LookTarget, A!Goes, A!Ends
  <1> HIDE DEF new
  <1>8. Carried(new)
    BY <1>1, <1>2, <1>6 DEF Carried, Reading
  <1>9. CASE req' = [req EXCEPT ![s] = A!Idle]
    BY <1>3, <1>4, <1>9, QuietRequest
  <1>10. CASE /\ req' = [req EXCEPT ![s] = new]
              /\ fronts[req[s].on] \in IF req[s].op = "primary" THEN {"primary", "secondary"} ELSE {"secondary"}
    <2>1. Relied(new)
      BY <1>6, <1>10 DEF Relied, Reading
    <2> QED
      BY <1>3, <1>4, <1>5, <1>8, <1>10, <2>1, QuietRequest
  <1> QED
    BY <1>7, <1>9, <1>10

\* One storefront is made the primary one, and the others are not.
LEMMA FrontSetPrimary ==
    ASSUME FrontInv, NEW s \in Requests, A!SetPrimary(s)
    PROVE  FrontInv'
  <1> DEFINE f == req[s].on
  <1>1. req[s] # A!Idle /\ req[s].phase = "write" /\ req[s].op = "primary"
    BY InPhase DEF A!SetPrimary
  <1>2. /\ req[s] \in Reqs /\ Carried(req[s]) /\ (req[s].stale = FALSE => Relied(req[s]))
        /\ f \in Front
    BY <1>1, Asked DEF Carried, A!Asking
  <1>3. UNCHANGED <<name, store, latest, asks>>
    BY DEF A!SetPrimary
  <1>4. /\ asks \in [{"requests", "changes", "faults", "cuts", "updates"} -> Nat]
        /\ fronts \in [Front -> {"none", "secondary", "primary"}] /\ home \in Front
        /\ moved \in BOOLEAN
    BY DEF FrontInv, FrontTypes
  <1>5. CASE req[s].gone
    <2>1. req' = [req EXCEPT ![s] = A!Idle] /\ UNCHANGED <<home, fronts, moved, raced>>
      BY <1>5 DEF A!SetPrimary, A!Ends
    <2> QED
      BY <1>3, <1>4, <2>1, QuietRequest
  <1>6. CASE ~req[s].gone
    <2>1. /\ fronts' = A!Promoted(f) /\ home' = f
          /\ moved' = (moved \/ fronts[f] # "primary")
          /\ A!Wrote(s, A!Idle)
      BY <1>6 DEF A!SetPrimary, A!HomeOf
    <2>2. fronts' \in [Front -> {"none", "secondary", "primary"}]
      BY <2>1 DEF A!Promoted
    <2>3. \A g \in Front : fronts'[g] = IF fronts[g] = "none" THEN "none"
                                         ELSE IF g = f THEN "primary" ELSE "secondary"
      BY <2>1 DEF A!Promoted
    <2>4. req'[s] = A!Idle
      BY <2>1 DEF A!Wrote
    <2>5. ASSUME req[s].stale = FALSE, raced = FALSE
          PROVE  A!OnePrimary' /\ A!NameFollowsPrimary' /\ NamedAtHome'
      <3>1. fronts[f] # "none"
        BY <1>1, <1>2, <2>5 DEF Relied
      <3>2. A!Rows # {} /\ A!Rows' # {} /\ A!Primaries' = {f}
        BY <1>2, <2>3, <3>1 DEF A!Rows, A!Primaries
      <3>3. moved' = FALSE => moved = FALSE /\ fronts[f] = "primary"
        BY <1>4, <2>1
      <3>4. fronts[f] = "primary" => A!Primaries = {f}
        BY <1>2, <2>5, <3>2, ThePrimary DEF A!Primaries
      <3>5. moved' = FALSE /\ asks["updates"] = 0 => name.front = f
        BY <2>5, <3>2, <3>3, <3>4 DEF FrontInv, A!NameFollowsPrimary
      <3>6. moved' \in BOOLEAN
        BY <2>1, <1>4
      <3> QED
        BY <1>2, <1>3, <2>1, <3>2, <3>5, <3>6 DEF A!OnePrimary, A!NameFollowsPrimary, NamedAtHome
    <2>6. home' \in Front /\ moved' \in BOOLEAN
      BY <1>2, <1>4, <2>1
    <2> QED
      BY <1>1, <1>3, <2>1, <2>2, <2>4, <2>5, <2>6, WriteStep
  <1> QED
    BY <1>5, <1>6

\* Only a storefront that was no primary one is removed.
LEMMA FrontRemove ==
    ASSUME FrontInv, NEW s \in Requests, A!RemoveLocale(s)
    PROVE  FrontInv'
  <1> DEFINE f == req[s].on
  <1>1. req[s] # A!Idle /\ req[s].phase = "write" /\ req[s].op = "remove"
    BY InPhase DEF A!RemoveLocale
  <1>2. /\ req[s] \in Reqs /\ Carried(req[s]) /\ (req[s].stale = FALSE => Relied(req[s]))
        /\ f \in Front
    BY <1>1, Asked DEF Carried, A!Asking
  <1>3. UNCHANGED <<home, name, store, latest, moved, asks>>
    BY DEF A!RemoveLocale
  <1>4. /\ asks \in [{"requests", "changes", "faults", "cuts", "updates"} -> Nat]
        /\ fronts \in [Front -> {"none", "secondary", "primary"}] /\ home \in Front
        /\ moved \in BOOLEAN
    BY DEF FrontInv, FrontTypes
  <1>5. CASE req[s].gone
    <2>1. req' = [req EXCEPT ![s] = A!Idle] /\ UNCHANGED <<fronts, raced>>
      BY <1>5 DEF A!RemoveLocale, A!Ends
    <2> QED
      BY <1>3, <1>4, <2>1, QuietRequest
  <1>6. CASE ~req[s].gone
    <2>1. fronts' = [fronts EXCEPT ![f] = "none"] /\ A!Wrote(s, A!Idle)
      BY <1>6 DEF A!RemoveLocale
    <2>2. fronts' \in [Front -> {"none", "secondary", "primary"}]
      BY <1>4, <2>1
    <2>3. \A g \in Front : fronts'[g] = IF g = f THEN "none" ELSE fronts[g]
      BY <1>4, <2>1
    <2>4. req'[s] = A!Idle
      BY <2>1 DEF A!Wrote
    <2>5. ASSUME req[s].stale = FALSE, raced = FALSE
          PROVE  A!OnePrimary' /\ A!NameFollowsPrimary' /\ NamedAtHome'
      <3>1. fronts[f] = "secondary"
        BY <1>1, <1>2, <2>5 DEF Relied
      <3>2. A!Rows # {} /\ A!Primaries' = A!Primaries
        BY <1>2, <2>3, <3>1 DEF A!Rows, A!Primaries
      <3>3. PICK g \in Front : A!Primaries = {g}
        BY <2>5, <3>2, ThePrimary
      <3>4. g \in A!Rows'
        BY <2>3, <3>1, <3>3 DEF A!Rows, A!Primaries
      <3> QED
        BY <1>3, <2>5, <3>2, <3>4 DEF FrontInv, A!OnePrimary, A!NameFollowsPrimary, NamedAtHome
    <2> QED
      BY <1>1, <1>3, <1>4, <2>1, <2>2, <2>4, <2>5, WriteStep
  <1> QED
    BY <1>5, <1>6

\* A sync that goes on relies on what it has relied on.
LEMMA FrontSync ==
    ASSUME FrontInv, NEW s \in Requests, NEW new \in Reqs,
           req[s] # A!Idle, req[s].phase \in Reading, new.phase \in Reading,
           new.op = req[s].op, new.on = req[s].on, new.main = req[s].main, new.stale = req[s].stale,
           new.title = req[s].title \/ new.title.front = new.main,
           req' = [req EXCEPT ![s] = new],
           UNCHANGED <<home, name, fronts, store, moved, raced>>,
           asks' \in [{"requests", "changes", "faults", "cuts", "updates"} -> Nat],
           asks'["updates"] = asks["updates"]
    PROVE  FrontInv'
  <1>1. Carried(req[s]) /\ (req[s].stale = FALSE => Relied(req[s]))
    BY Asked
  <1>2. Carried(new)
    BY <1>1 DEF Carried, Reading
  <1>3. new.stale = FALSE => Relied(new)
    BY <1>1 DEF Relied, Reading
  <1> QED
    BY <1>2, <1>3, QuietRequest

\* The steps of a sync that fetches.
LEMMA FrontFetch ==
    ASSUME FrontInv, NEW s \in Requests,
           \/ \E f \in Front : A!Fetch(s, f) \/ A!FetchFails(s, f)
           \/ A!Compare(s) \/ A!Create(s)
    PROVE  FrontInv'
  <1>1. asks \in [{"requests", "changes", "faults", "cuts", "updates"} -> Nat]
        /\ store \in [Front -> Nat]
    BY DEF FrontInv, FrontTypes
  <1>2. ASSUME NEW f \in Front, A!Fetch(s, f) PROVE FrontInv'
    <2> DEFINE new == [req[s] EXCEPT !.phase = "compare", !.listing = A!Shown(f),
                                     !.title = A!TitleOf(req[s], A!Shown(f))]
    <2>1. req[s] # A!Idle /\ req[s].phase = "fetch"
      BY <1>2, InPhase DEF A!Fetch
    <2>2. req[s] \in Reqs
      BY <2>1, Asked
    <2>3. A!Shown(f) \in Listings
      BY <1>1 DEF A!Shown, Listings
    <2>4. A!TitleOf(req[s], A!Shown(f)) \in Listings
      BY <2>2, <2>3 DEF A!TitleOf, Reqs
    <2>5. new \in Reqs
      BY <2>2, <2>3, <2>4 DEF Reqs
    <2>6. /\ new.phase = "compare" /\ new.op = req[s].op /\ new.on = req[s].on
          /\ new.main = req[s].main /\ new.stale = req[s].stale
          /\ new.title = A!TitleOf(req[s], A!Shown(f))
      BY <2>2 DEF Reqs
    <2>7. new.title = req[s].title \/ new.title.front = new.main
      BY <2>6 DEF A!TitleOf
    <2>8. req' = [req EXCEPT ![s] = new]
      BY <1>2 DEF A!Fetch
    <2>9. UNCHANGED <<home, name, fronts, store, latest, moved, raced, asks>>
      BY <1>2 DEF A!Fetch
    <2> HIDE DEF new
    <2> QED
      BY <1>1, <2>1, <2>5, <2>6, <2>7, <2>8, <2>9, FrontSync DEF Reading
  <1>3. ASSUME NEW f \in Front, A!FetchFails(s, f) PROVE FrontInv'
    <2> DEFINE new == [req[s] EXCEPT !.todo = @ \ {f}]
    <2>1. req[s] # A!Idle /\ req[s].phase = "fetch" /\ A!Spend("faults")
      BY <1>3, InPhase DEF A!FetchFails
    <2>2. req[s] \in Reqs
      BY <2>1, Asked
    <2>3. new \in Reqs
      BY <2>2 DEF Reqs
    <2>4. /\ new.phase = req[s].phase /\ new.op = req[s].op /\ new.on = req[s].on
          /\ new.main = req[s].main /\ new.stale = req[s].stale /\ new.title = req[s].title
      BY <2>2 DEF Reqs
    <2>5. req' = [req EXCEPT ![s] = new]
      BY <1>3 DEF A!FetchFails
    <2>6. UNCHANGED <<home, name, fronts, store, latest, moved, raced>>
      BY <1>3 DEF A!FetchFails
    <2>7. asks' \in [{"requests", "changes", "faults", "cuts", "updates"} -> Nat]
          /\ asks'["updates"] = asks["updates"]
      BY <1>1, <2>1, AskTypes
    <2> HIDE DEF new
    <2> QED
      BY <2>1, <2>3, <2>4, <2>5, <2>6, <2>7, FrontSync DEF Reading
  <1>4. CASE A!Compare(s) \/ A!Create(s)
    <2> DEFINE f == req[s].listing.front
               done == [req[s] EXCEPT !.phase = "fetch", !.todo = @ \ {f}]
               other == [req[s] EXCEPT !.phase = "create"]
    <2>1. req[s] # A!Idle /\ req[s].phase \in Reading
      BY <1>4, InPhase DEF A!Compare, A!Create, Reading
    <2>2. req[s] \in Reqs
      BY <2>1, Asked
    <2>3. done \in Reqs /\ other \in Reqs
      BY <2>2 DEF Reqs
    <2>4. /\ done.phase = "fetch" /\ done.op = req[s].op /\ done.on = req[s].on
          /\ done.main = req[s].main /\ done.stale = req[s].stale /\ done.title = req[s].title
          /\ other.phase = "create" /\ other.op = req[s].op /\ other.on = req[s].on
          /\ other.main = req[s].main /\ other.stale = req[s].stale /\ other.title = req[s].title
      BY <2>2 DEF Reqs
    <2>5. req' = [req EXCEPT ![s] = done] \/ req' = [req EXCEPT ![s] = other]
      BY <1>4 DEF A!Compare, A!Create, A!Goes
    <2>6. UNCHANGED <<home, name, fronts, store, moved, raced, asks>>
      BY <1>4 DEF A!Compare, A!Create
    <2> HIDE DEF done, other
    <2>7. CASE req' = [req EXCEPT ![s] = done]
      BY <1>1, <2>1, <2>3, <2>4, <2>6, <2>7, FrontSync DEF Reading
    <2>8. CASE req' = [req EXCEPT ![s] = other]
      BY <1>1, <2>1, <2>3, <2>4, <2>6, <2>8, FrontSync DEF Reading
    <2> QED
      BY <2>5, <2>7, <2>8
  <1> QED
    BY <1>2, <1>3, <1>4

\* A request that ends without renaming.
LEMMA FrontEnds ==
    ASSUME FrontInv, NEW s \in Requests, A!Nameless(s) \/ A!Cut(s)
    PROVE  FrontInv'
  <1>1. asks \in [{"requests", "changes", "faults", "cuts", "updates"} -> Nat]
    BY DEF FrontInv, FrontTypes
  <1>2. asks' \in [{"requests", "changes", "faults", "cuts", "updates"} -> Nat]
        /\ asks'["updates"] = asks["updates"]
    BY <1>1, AskTypes DEF A!Nameless, A!Cut
  <1>3. req' = [req EXCEPT ![s] = A!Idle] /\ UNCHANGED <<home, name, fronts, store, moved, raced>>
    BY DEF A!Nameless, A!Cut, A!Ends
  <1> QED
    BY <1>2, <1>3, QuietRequest

\* The app is renamed after its primary storefront, or by a sync that is in a race.
LEMMA FrontRename ==
    ASSUME FrontInv, NEW s \in Requests, A!Rename(s)
    PROVE  FrontInv'
  <1>1. /\ req[s] # A!Idle /\ req[s].phase = "fetch" /\ req[s].title # A!NoListing
    BY InPhase DEF A!Rename
  <1>2. req[s] \in Reqs /\ Carried(req[s]) /\ (req[s].stale = FALSE => Relied(req[s]))
    BY <1>1, Asked
  <1>3. /\ name' = req[s].title /\ req' = [req EXCEPT ![s] = A!Idle]
        /\ moved' = (moved /\ req[s].stale) /\ raced' = (raced \/ req[s].stale)
        /\ UNCHANGED <<home, fronts, store, latest, asks>>
    BY DEF A!Rename, A!Ends
  <1>4. FrontTypes /\ req[s].stale \in BOOLEAN
    BY <1>2 DEF FrontInv, Reqs
  <1>5. moved' \in BOOLEAN /\ raced' \in BOOLEAN /\ (raced' = FALSE => raced = FALSE /\ req[s].stale = FALSE)
    BY <1>3, <1>4 DEF FrontTypes
  <1>6. FrontTypes'
    BY <1>3, <1>4, <1>5 DEF FrontTypes
  <1>7. A!Rows' = A!Rows /\ A!Primaries' = A!Primaries
    BY <1>3 DEF A!Rows, A!Primaries
  <1>8. \A t \in Requests : req'[t] = IF t = s THEN A!Idle ELSE req[t]
    BY <1>3, <1>4 DEF FrontTypes
  <1>9. ASSUME NEW t \in Requests, req'[t] # A!Idle
        PROVE  Carried(req[t])' /\ (req[t].stale = FALSE => Relied(req[t]))'
    <2>1. req'[t] = req[t] /\ req[t] # A!Idle
      BY <1>8, <1>9
    <2>2. Carried(req[t]) /\ (req[t].stale = FALSE => Relied(req[t]))
      BY <2>1, Asked
    <2> QED
      BY <1>3, <1>5, <1>7, <2>1, <2>2 DEF Carried, Relied
  <1>10. ASSUME raced' = FALSE
         PROVE  name'.front \in A!Primaries /\ A!Rows # {}
    <2>1. A!Primaries = {req[s].main}
      BY <1>1, <1>2, <1>5, <1>10 DEF Relied, Reading
    <2>2. name'.front = req[s].main
      BY <1>1, <1>2, <1>3 DEF Carried
    <2> QED
      BY <2>1, <2>2 DEF A!Primaries, A!Rows
  <1>11. A!OnePrimary' /\ A!NameFollowsPrimary' /\ NamedAtHome'
    BY <1>3, <1>5, <1>7, <1>10 DEF FrontInv, A!OnePrimary, A!NameFollowsPrimary, NamedAtHome
  <1> QED
    BY <1>6, <1>9, <1>11 DEF FrontInv

\* The app's country is set by hand, or a store shows another listing.
LEMMA FrontChange ==
    ASSUME FrontInv, NEW f \in Front, A!Update(f) \/ A!Change(f)
    PROVE  FrontInv'
  <1>1. FrontTypes
    BY DEF FrontInv
  <1>2. CASE A!Update(f)
    <2>1. /\ asks' \in [{"requests", "changes", "faults", "cuts", "updates"} -> Nat]
          /\ asks'["updates"] # 0
      BY <1>1, <1>2, AskTypes DEF A!Update, FrontTypes
    <2>2. home' = f /\ UNCHANGED <<name, fronts, store, latest, req, moved, raced>>
      BY <1>2 DEF A!Update
    <2>3. A!Rows' = A!Rows /\ A!Primaries' = A!Primaries
      BY <2>2 DEF A!Rows, A!Primaries
    <2>4. FrontTypes'
      BY <1>1, <2>1, <2>2 DEF FrontTypes
    <2>5. A!OnePrimary' /\ A!NameFollowsPrimary' /\ NamedAtHome'
      BY <2>1, <2>2, <2>3 DEF FrontInv, A!OnePrimary, A!NameFollowsPrimary, NamedAtHome
    <2>6. ASSUME NEW t \in Requests, req'[t] # A!Idle
          PROVE  Carried(req[t])' /\ (req[t].stale = FALSE => Relied(req[t]))'
      BY <2>1, <2>2, <2>3, <2>6, Asked DEF Carried, Relied
    <2> QED
      BY <2>4, <2>5, <2>6 DEF FrontInv
  <1>3. CASE A!Change(f)
    <2>1. /\ asks' \in [{"requests", "changes", "faults", "cuts", "updates"} -> Nat]
          /\ asks'["updates"] = asks["updates"]
      BY <1>1, <1>3, AskTypes DEF A!Change, FrontTypes
    <2>2. /\ store' = [store EXCEPT ![f] = @ + 1]
          /\ UNCHANGED <<home, name, fronts, latest, req, moved, raced>>
      BY <1>3 DEF A!Change
    <2>3. store' \in [Front -> Nat]
      BY <1>1, <2>2 DEF FrontTypes
    <2> QED
      BY <1>1, <2>1, <2>2, <2>3, QuietStep, Asked DEF FrontTypes
  <1> QED
    BY <1>2, <1>3

\* FrontInv is inductive.
LEMMA FrontNext == ASSUME FrontInv, [A!Next]_A!vars PROVE FrontInv'
  <1>1. ASSUME NEW s \in Requests, NEW op \in A!Asking \union {"add"} \union A!Changing,
               NEW f \in Front \union {NoFront}, A!Begin(s, op, f)
        PROVE  FrontInv'
    BY <1>1, FrontBegin DEF A!Asking, A!Changing
  <1>2. ASSUME NEW s \in Requests,
               \/ \E f \in Front : A!Fetch(s, f) \/ A!FetchFails(s, f)
               \/ A!Compare(s) \/ A!Create(s)
        PROVE  FrontInv'
    BY <1>2, FrontFetch
  <1>3. ASSUME NEW s \in Requests,
               A!Look(s) \/ A!ReadHome(s) \/ A!UpsertPrimary(s) \/ A!AddLocale(s) \/ A!LookTarget(s)
        PROVE  FrontInv'
    BY <1>3, FrontLook, FrontReadHome, FrontUpsert, FrontAdd, FrontLookTarget
  <1>4. ASSUME NEW s \in Requests,
               A!SetPrimary(s) \/ A!RemoveLocale(s) \/ A!Rename(s) \/ A!Nameless(s) \/ A!Cut(s)
        PROVE  FrontInv'
    BY <1>4, FrontSetPrimary, FrontRemove, FrontRename, FrontEnds
  <1>5. ASSUME NEW f \in Front, A!Update(f) \/ A!Change(f) PROVE FrontInv'
    BY <1>5, FrontChange
  <1>6. CASE UNCHANGED A!vars
    <2>1. UNCHANGED <<home, name, fronts, store, req, moved, raced, asks>>
      BY <1>6 DEF A!vars
    <2>2. FrontTypes
      BY DEF FrontInv
    <2> QED
      BY <2>1, <2>2, QuietStep, Asked DEF FrontTypes
  <1>7. CASE A!Next
    BY <1>7, <1>1, <1>2, <1>3, <1>4, <1>5 DEF A!Next
  <1> QED
    BY <1>6, <1>7

\* appStorefronts, setPrimaryLocale and syncListing: an app that has storefronts has one primary
\* one, which its country mirrors and its name is taken from, until a request writes after
\* another has written what it relied on.
THEOREM StorefrontsSpeakAsOne == A!Spec => [](A!StorefrontsAgree /\ StorefrontsAgree)
  <1>1. FrontInv => A!StorefrontsAgree
    BY DEF FrontInv, A!StorefrontsAgree
  <1>2. A!StorefrontsAgree => StorefrontsAgree
    BY DEF StorefrontsAgree
  <1> QED
    BY <1>2, <1>1, FrontInit, FrontNext, PTL DEF A!Spec

-----------------------------------------------------------------------------
(* The advice of an app.  One pass at most is about to add a title that    *)
(* nobody excuses, and then no row of it is current.                       *)

Advice == [title : Title, status : I!Status]

Standing == [at : {"idle", "waiting", "explain", "list", "find", "create"}, made : Nat, todo : Seq(Title)]

\* The passes that have today's anomaly still to explain.
Unexplained == {s \in Pass : pass[s].at \in {"waiting", "explain"}}

Owes(w) == IF w.at \in {"waiting", "explain"} THEN 1 ELSE 0

\* How many more there may be.
Granted == passes.passes + passes.troubles - insights

PassTypes ==
    /\ rec \in Seq(Advice)
    /\ insights \in Nat
    /\ pass \in [Pass -> Standing]
    /\ passes \in [passes : Nat, changes : Nat, troubles : Nat]
    /\ \A s \in Pass : pass[s].at = "create" => pass[s].todo # <<>>

AtMostOne(S) == \A x, y \in S : x = y

Unexcused(title) ==
    /\ AtMostOne(I!CurrentRows(title))
    /\ AtMostOne(I!Adding(title))
    /\ I!Adding(title) # {} => I!CurrentRows(title) = {}

PassInv ==
    /\ PassTypes
    /\ insights + Cardinality(Unexplained) <= passes.passes + passes.troubles
    /\ \A title \in Title : title \notin excused => Unexcused(title)

\* A pass that has it to explain, or has it no more, is one more or one less.
LEMMA UnexplainedStep ==
    ASSUME IsFiniteSet(Pass), PassTypes, NEW s \in Pass, NEW new \in Standing,
           pass' = [pass EXCEPT ![s] = new]
    PROVE  /\ Cardinality(Unexplained) \in Nat /\ Cardinality(Unexplained') \in Nat
           /\ Cardinality(Unexplained') = Cardinality(Unexplained)
                + Owes(new) - Owes(pass[s])
  <1>1. \A t \in Pass : pass'[t] = IF t = s THEN new ELSE pass[t]
    BY DEF PassTypes
  <1> DEFINE rest == Unexplained \ {s}
  <1>2. IsFiniteSet(Unexplained) /\ IsFiniteSet(rest)
    BY FS_Subset DEF Unexplained
  <1>3. Unexplained = IF pass[s].at \in {"waiting", "explain"} THEN rest \union {s} ELSE rest
    BY DEF Unexplained
  <1>4. Unexplained' = IF new.at \in {"waiting", "explain"} THEN rest \union {s} ELSE rest
    BY <1>1 DEF Unexplained
  <1>5. Cardinality(rest) \in Nat /\ Cardinality(rest \union {s}) = Cardinality(rest) + 1
    BY <1>2, FS_CardinalityType, FS_AddElement
  <1> HIDE DEF rest
  <1> QED
    BY <1>3, <1>4, <1>5 DEF Owes

\* No pass waits at first.
LEMMA PassInit == I!Init => PassInv
  <1> SUFFICES ASSUME I!Init PROVE PassInv
    OBVIOUS
  <1>1. Unexplained = {}
    BY DEF I!Init, I!Idle, Unexplained
  <1>2. Cardinality(Unexplained) = 0
    BY <1>1, FS_EmptySet
  <1>3. PassTypes
    BY DEF I!Init, I!Idle, PassTypes, Standing, Advice
  <1>4. \A title : I!CurrentRows(title) = {} /\ I!Adding(title) = {}
    BY DEF I!Init, I!Idle, I!CurrentRows, I!Rows, I!Adding
  <1> QED
    BY <1>2, <1>3, <1>4 DEF PassInv, Unexcused, AtMostOne, I!Init

\* A step of a pass that adds nothing and is not about to.
LEMMA PassStep ==
    ASSUME IsFiniteSet(Pass), PassInv, NEW s \in Pass, NEW new \in Standing, new.at # "create",
           pass' = [pass EXCEPT ![s] = new], UNCHANGED <<rec, excused>>,
           insights' \in Nat, passes' \in [passes : Nat, changes : Nat, troubles : Nat],
           Granted' >= Granted + Owes(new) - Owes(pass[s])
    PROVE  PassInv'
  <1>1. PassTypes
    BY DEF PassInv
  <1>2. \A t \in Pass : pass'[t] = IF t = s THEN new ELSE pass[t]
    BY <1>1 DEF PassTypes
  <1>3. PassTypes'
    BY <1>1, <1>2 DEF PassTypes
  <1>4. insights' + Cardinality(Unexplained') <= passes'.passes + passes'.troubles
    <2>1. /\ Cardinality(Unexplained) \in Nat /\ Cardinality(Unexplained') \in Nat
          /\ Cardinality(Unexplained') = Cardinality(Unexplained)
               + Owes(new) - Owes(pass[s])
      BY <1>1, UnexplainedStep
    <2>2. insights \in Nat /\ passes \in [passes : Nat, changes : Nat, troubles : Nat]
      BY <1>1 DEF PassTypes
    <2>3. insights + Cardinality(Unexplained) <= passes.passes + passes.troubles
      BY DEF PassInv
    <2>4. Owes(new) \in {0, 1} /\ Owes(pass[s]) \in {0, 1}
      BY DEF Owes
    <2> QED
      BY <2>1, <2>2, <2>3, <2>4 DEF Granted
  <1>5. ASSUME NEW title \in Title, title \notin excused
        PROVE  Unexcused(title)'
    <2>1. I!Adding(title)' \subseteq I!Adding(title)
      BY <1>2 DEF I!Adding
    <2>2. I!CurrentRows(title)' = I!CurrentRows(title)
      BY DEF I!CurrentRows, I!Rows
    <2>3. Unexcused(title)
      BY <1>5 DEF PassInv
    <2> QED
      BY <2>1, <2>2, <2>3 DEF Unexcused, AtMostOne
  <1> QED
    BY <1>3, <1>4, <1>5 DEF PassInv

\* What a pass does before it goes through the titles, and after.
LEMMA PassGoesOn ==
    ASSUME IsFiniteSet(Pass), PassInv, NEW s \in Pass,
           \/ I!Queue(s) \/ I!Begin(s) \/ I!Explain(s) \/ I!Finish(s) \/ I!Fail(s)
           \/ \E titles \in I!Titles : I!List(s, titles)
    PROVE  PassInv'
  <1> DEFINE w == pass[s]
  <1>1. w \in Standing /\ insights \in Nat /\ passes \in [passes : Nat, changes : Nat, troubles : Nat]
    BY DEF PassInv, PassTypes
  <1>2. I!Idle \in Standing /\ I!Idle.at = "idle" /\ I!Idle.todo = <<>>
    BY DEF I!Idle, Standing
  <1>3. CASE I!Queue(s)
    <2> DEFINE new == [w EXCEPT !.at = "waiting"]
    <2>1. new \in Standing /\ new.at = "waiting" /\ w.at = "idle"
      BY <1>1, <1>2, <1>3 DEF Standing, I!Queue
    <2>2. pass' = [pass EXCEPT ![s] = new] /\ UNCHANGED <<rec, insights, excused>>
      BY <1>3 DEF I!Queue
    <2>3. /\ passes' \in [passes : Nat, changes : Nat, troubles : Nat]
          /\ passes'.passes = passes.passes + 1 /\ passes'.troubles = passes.troubles
      BY <1>1, <1>3 DEF I!Queue
    <2> HIDE DEF new
    <2>4. Granted' >= Granted + Owes(new) - Owes(w)
      BY <1>1, <2>1, <2>2, <2>3 DEF Granted, Owes
    <2> QED
      BY <1>1, <2>1, <2>2, <2>3, <2>4, PassStep
  <1>4. CASE I!Begin(s)
    <2> DEFINE new == [w EXCEPT !.at = "explain"]
    <2>1. new \in Standing /\ new.at = "explain" /\ w.at = "waiting"
      BY <1>1, <1>4 DEF Standing, I!Begin
    <2>2. pass' = [pass EXCEPT ![s] = new] /\ UNCHANGED <<rec, insights, excused, passes>>
      BY <1>4 DEF I!Begin
    <2> HIDE DEF new
    <2>3. Granted' >= Granted + Owes(new) - Owes(w)
      BY <1>1, <2>1, <2>2 DEF Granted, Owes
    <2>4. insights' \in Nat /\ passes' \in [passes : Nat, changes : Nat, troubles : Nat]
      BY <1>1, <2>2
    <2> QED
      BY <2>1, <2>2, <2>3, <2>4, PassStep
  <1>5. CASE I!Explain(s)
    <2> DEFINE new == [w EXCEPT !.at = "list"]
    <2>1. new \in Standing /\ new.at = "list" /\ w.at = "explain"
      BY <1>1, <1>5 DEF Standing, I!Explain
    <2>2. /\ pass' = [pass EXCEPT ![s] = new] /\ insights' = insights + 1
          /\ UNCHANGED <<rec, excused, passes>>
      BY <1>5 DEF I!Explain
    <2> HIDE DEF new
    <2>3. Granted' >= Granted + Owes(new) - Owes(w)
      BY <1>1, <2>1, <2>2 DEF Granted, Owes
    <2>4. insights' \in Nat /\ passes' \in [passes : Nat, changes : Nat, troubles : Nat]
      BY <1>1, <2>2
    <2> QED
      BY <2>1, <2>2, <2>3, <2>4, PassStep
  <1>6. CASE I!Finish(s)
    <2>1. w.at = "find" /\ pass' = [pass EXCEPT ![s] = I!Idle] /\ UNCHANGED <<rec, insights, excused, passes>>
      BY <1>6 DEF I!Finish
    <2>2. Granted' >= Granted + Owes(I!Idle) - Owes(w)
      BY <1>1, <1>2, <2>1 DEF Granted, Owes
    <2> QED
      BY <1>1, <1>2, <2>1, <2>2, PassStep
  <1>7. CASE I!Fail(s)
    <2> DEFINE new == [I!Idle EXCEPT !.at = "waiting", !.made = w.made + 1]
    <2>1. new \in Standing /\ new.at = "waiting"
      <3> DEFINE made == w.made + 1
      <3>1. made \in Nat
        BY <1>1 DEF Standing
      <3>2. new = [I!Idle EXCEPT !.at = "waiting", !.made = made]
        OBVIOUS
      <3> HIDE DEF made, new
      <3> QED
        BY <1>2, <3>1, <3>2 DEF Standing
    <2>2. pass' = [pass EXCEPT ![s] = new] \/ pass' = [pass EXCEPT ![s] = I!Idle]
      BY <1>7 DEF I!Fail
    <2>3. /\ passes' \in [passes : Nat, changes : Nat, troubles : Nat]
          /\ passes'.passes = passes.passes /\ passes'.troubles = passes.troubles + 1
          /\ UNCHANGED <<rec, insights, excused>>
      BY <1>1, <1>7 DEF I!Fail
    <2> HIDE DEF new
    <2>4. CASE pass' = [pass EXCEPT ![s] = new]
      <3>1. Granted' >= Granted + Owes(new) - Owes(w)
        BY <1>1, <2>1, <2>3 DEF Granted, Owes
      <3> QED
        BY <1>1, <2>1, <2>3, <2>4, <3>1, PassStep
    <2>5. CASE pass' = [pass EXCEPT ![s] = I!Idle]
      <3>1. Granted' >= Granted + Owes(I!Idle) - Owes(w)
        BY <1>1, <1>2, <2>3 DEF Granted, Owes
      <3> QED
        BY <1>1, <1>2, <2>3, <2>5, <3>1, PassStep
    <2> QED
      BY <2>2, <2>4, <2>5
  <1>8. ASSUME NEW titles \in I!Titles, I!List(s, titles)
        PROVE  PassInv'
    <2> DEFINE new == [w EXCEPT !.at = "find", !.todo = titles]
    <2>1. titles \in Seq(Title)
      <3>1. PICK n \in 0 .. 2 : titles \in [1 .. n -> Title]
        BY DEF I!Titles
      <3> QED
        BY <3>1, \A m \in Nat : [1 .. m -> Title] \subseteq Seq(Title)
    <2>2. new \in Standing /\ new.at = "find" /\ w.at = "list"
      BY <1>1, <1>8, <2>1 DEF Standing, I!List
    <2>3. pass' = [pass EXCEPT ![s] = new] /\ UNCHANGED <<rec, insights, excused, passes>>
      BY <1>8 DEF I!List
    <2> HIDE DEF new
    <2>4. Granted' >= Granted + Owes(new) - Owes(w)
      BY <1>1, <2>2, <2>3 DEF Granted, Owes
    <2> QED
      BY <1>1, <2>2, <2>3, <2>4, PassStep
  <1> QED
    BY <1>3, <1>4, <1>5, <1>6, <1>7, <1>8

\* A pass finds a title among the current ones, or is about to add it: alone, or excused.
LEMMA PassFinds ==
    ASSUME IsFiniteSet(Pass), PassInv, NEW s \in Pass, I!Find(s)
    PROVE  PassInv'
  <1> DEFINE w == pass[s]
             title == Head(w.todo)
  <1>1. w \in Standing /\ insights \in Nat /\ passes \in [passes : Nat, changes : Nat, troubles : Nat]
        /\ pass \in [Pass -> Standing] /\ PassTypes
    BY DEF PassInv, PassTypes
  <1>2. w.at = "find" /\ w.todo # <<>> /\ UNCHANGED <<rec, insights, passes>>
    BY DEF I!Find
  <1>3. w.todo \in Seq(Title)
    BY <1>1 DEF Standing
  <1>4. title \in Title /\ Tail(w.todo) \in Seq(Title)
    BY <1>2, <1>3
  <1>5. CASE I!Existing(title)
    <2> DEFINE new == [w EXCEPT !.todo = Tail(w.todo)]
    <2>1. new \in Standing /\ new.at = "find"
      BY <1>1, <1>2, <1>4 DEF Standing
    <2>2. pass' = [pass EXCEPT ![s] = new] /\ UNCHANGED excused
      BY <1>5 DEF I!Find
    <2> HIDE DEF new
    <2>3. Granted' >= Granted + Owes(new) - Owes(w)
      BY <1>1, <1>2, <2>1 DEF Granted, Owes
    <2> QED
      BY <1>1, <1>2, <2>1, <2>2, <2>3, PassStep
  <1>6. CASE ~I!Existing(title)
    <2> DEFINE new == [w EXCEPT !.at = "create"]
    <2>1. new \in Standing /\ new.at = "create" /\ new.todo = w.todo
      BY <1>1 DEF Standing
    <2>2. pass' = [pass EXCEPT ![s] = new]
          /\ excused' = IF I!Adding(title) # {} THEN excused \union {title} ELSE excused
      BY <1>6 DEF I!Find
    <2> HIDE DEF new
    <2>3. \A t \in Pass : pass'[t] = IF t = s THEN new ELSE pass[t]
      BY <1>1, <2>2
    <2>4. PassTypes'
      BY <1>1, <1>2, <2>1, <2>2, <2>3 DEF PassTypes
    <2>5. insights' + Cardinality(Unexplained') <= passes'.passes + passes'.troubles
      <3>1. Unexplained' = Unexplained
        BY <1>2, <2>1, <2>3 DEF Unexplained
      <3> QED
        BY <1>2, <3>1 DEF PassInv
    <2>6. ASSUME NEW x \in Title, x \notin excused'
          PROVE  Unexcused(x)'
      <3>1. x \notin excused /\ I!CurrentRows(x)' = I!CurrentRows(x)
        BY <1>2, <2>2, <2>6 DEF I!CurrentRows, I!Rows
      <3>2. Unexcused(x)
        BY <3>1 DEF PassInv
      <3>3. CASE x = title
        <4>1. I!Adding(x) = {}
          BY <2>2, <2>6, <3>3
        <4>2. I!Adding(x)' = {s}
          BY <2>1, <2>3, <3>3, <4>1 DEF I!Adding
        <4>3. I!CurrentRows(x) = {}
          BY <1>6, <3>3 DEF I!Existing
        <4> QED
          BY <3>1, <4>2, <4>3 DEF Unexcused, AtMostOne
      <3>4. CASE x # title
        <4>1. I!Adding(x)' = I!Adding(x)
          BY <1>2, <2>1, <2>3, <3>4 DEF I!Adding
        <4> QED
          BY <3>1, <3>2, <4>1 DEF Unexcused, AtMostOne
      <3> QED
        BY <3>3, <3>4
    <2> QED
      BY <2>4, <2>5, <2>6 DEF PassInv
  <1> QED
    BY <1>5, <1>6

\* Who adds a title that is not excused was the only one about to.
LEMMA PassCreates ==
    ASSUME IsFiniteSet(Pass), PassInv, NEW s \in Pass, I!Create(s)
    PROVE  PassInv'
  <1> DEFINE w == pass[s]
             title == Head(w.todo)
             added == [title |-> title, status |-> "OPEN"]
             new == [w EXCEPT !.at = "find", !.todo = Tail(w.todo)]
  <1>1. w \in Standing /\ rec \in Seq(Advice) /\ PassTypes /\ pass \in [Pass -> Standing]
    BY DEF PassInv, PassTypes
  <1>2. /\ w.at = "create" /\ rec' = Append(rec, added) /\ pass' = [pass EXCEPT ![s] = new]
        /\ UNCHANGED <<insights, excused, passes>>
    BY DEF I!Create
  <1>3. w.todo \in Seq(Title) /\ w.todo # <<>>
    BY <1>1, <1>2 DEF Standing, PassTypes
  <1>4. title \in Title /\ Tail(w.todo) \in Seq(Title)
    BY <1>3
  <1>5. added \in Advice /\ added.title = title /\ added.status = "OPEN"
    BY <1>4 DEF Advice, I!Status
  <1>6. new \in Standing /\ new.at = "find"
    BY <1>1, <1>4 DEF Standing
  <1> HIDE DEF added, new
  <1>7. \A t \in Pass : pass'[t] = IF t = s THEN new ELSE pass[t]
    BY <1>1, <1>2
  <1>8. /\ rec' \in Seq(Advice) /\ Len(rec') = Len(rec) + 1 /\ Len(rec) \in Nat
        /\ rec'[Len(rec) + 1] = added
        /\ \A n \in 1 .. Len(rec) : rec'[n] = rec[n]
        /\ DOMAIN rec = 1 .. Len(rec) /\ DOMAIN rec' = 1 .. (Len(rec) + 1)
    BY <1>1, <1>2, <1>5
  <1>9. PassTypes'
    BY <1>1, <1>2, <1>6, <1>7, <1>8 DEF PassTypes
  <1>10. insights' + Cardinality(Unexplained') <= passes'.passes + passes'.troubles
    <2>1. Unexplained' = Unexplained
      BY <1>2, <1>6, <1>7 DEF Unexplained
    <2> QED
      BY <1>2, <2>1 DEF PassInv
  <1>11. ASSUME NEW x \in Title, x \notin excused'
         PROVE  Unexcused(x)'
    <2>1. Unexcused(x)
      BY <1>2, <1>11 DEF PassInv
    <2>2. I!Adding(x)' = I!Adding(x) \ {s}
      BY <1>6, <1>7 DEF I!Adding
    <2>3. CASE x = title
      <3>1. s \in I!Adding(x)
        BY <1>2, <2>3 DEF I!Adding
      <3>2. I!CurrentRows(x) = {} /\ I!Adding(x)' = {}
        BY <2>1, <2>2, <3>1 DEF Unexcused, AtMostOne
      <3>3. I!CurrentRows(x)' \subseteq {Len(rec) + 1}
        <4> SUFFICES ASSUME NEW n \in DOMAIN rec', rec'[n].title = x, rec'[n].status \in I!Current,
                            n # Len(rec) + 1
                     PROVE  FALSE
          BY DEF I!CurrentRows, I!Rows
        <4>1. n \in DOMAIN rec /\ rec[n].title = x /\ rec[n].status \in I!Current
          BY <1>8
        <4> QED
          BY <3>2, <4>1 DEF I!CurrentRows, I!Rows
      <3> QED
        BY <3>2, <3>3 DEF Unexcused, AtMostOne
    <2>4. CASE x # title
      <3>1. I!CurrentRows(x)' = I!CurrentRows(x)
        BY <1>5, <1>8, <2>4 DEF I!CurrentRows, I!Rows
      <3> QED
        BY <2>1, <2>2, <3>1 DEF Unexcused, AtMostOne
    <2> QED
      BY <2>3, <2>4
  <1> QED
    BY <1>9, <1>10, <1>11 DEF PassInv

\* A member takes up an old title while it is there, or about to be, and is an excuse.
LEMMA PassStatus ==
    ASSUME PassInv, NEW n \in DOMAIN rec, NEW status \in I!Status, I!SetStatus(n, status)
    PROVE  PassInv'
  <1> DEFINE title == rec[n].title
             again == /\ status \in I!Current /\ rec[n].status \notin I!Current
                      /\ I!CurrentRows(title) # {} \/ I!Adding(title) # {}
  <1>1. PassTypes /\ rec \in Seq(Advice) /\ passes \in [passes : Nat, changes : Nat, troubles : Nat]
    BY DEF PassInv, PassTypes
  <1>2. rec' = [rec EXCEPT ![n].status = status] /\ UNCHANGED <<insights, pass>>
    BY DEF I!SetStatus
  <1>3. excused' = IF again THEN excused \union {title} ELSE excused
    BY DEF I!SetStatus
  <1>4. passes' = [passes EXCEPT !.changes = @ + 1]
    BY DEF I!SetStatus
  <1>5. rec[n] \in Advice
    BY <1>1
  <1> DEFINE new == [rec[n] EXCEPT !.status = status]
  <1>6. new \in Advice /\ new.title = title /\ new.status = status
    BY <1>5 DEF Advice
  <1>7. rec' = [rec EXCEPT ![n] = new]
    BY <1>2
  <1> HIDE DEF new
  <1>8. /\ rec' \in Seq(Advice) /\ DOMAIN rec' = DOMAIN rec
        /\ \A k \in DOMAIN rec : rec'[k] = IF k = n THEN new ELSE rec[k]
    BY <1>1, <1>6, <1>7
  <1>9. /\ passes' \in [passes : Nat, changes : Nat, troubles : Nat]
        /\ passes'.passes = passes.passes /\ passes'.troubles = passes.troubles
    BY <1>1, <1>4
  <1>10. PassTypes'
    BY <1>1, <1>2, <1>8, <1>9 DEF PassTypes
  <1>11. insights' + Cardinality(Unexplained') <= passes'.passes + passes'.troubles
    <2>1. Unexplained' = Unexplained
      BY <1>2 DEF Unexplained
    <2> QED
      BY <1>2, <1>9, <2>1 DEF PassInv
  <1>12. ASSUME NEW x \in Title, x \notin excused'
         PROVE  Unexcused(x)'
    <2>1. Unexcused(x)
      BY <1>3, <1>12 DEF PassInv
    <2>2. I!Adding(x)' = I!Adding(x)
      BY <1>2 DEF I!Adding
    <2>3. \A k \in DOMAIN rec :
            k \in I!CurrentRows(x)' <=> IF k = n THEN x = title /\ status \in I!Current
                                                ELSE k \in I!CurrentRows(x)
      BY <1>6, <1>8 DEF I!CurrentRows, I!Rows
    <2>4. I!CurrentRows(x)' \subseteq DOMAIN rec /\ I!CurrentRows(x) \subseteq DOMAIN rec
      BY <1>8 DEF I!CurrentRows, I!Rows
    <2>5. CASE x = title /\ status \in I!Current
      <3>1. CASE rec[n].status \in I!Current
        <4>1. n \in I!CurrentRows(x)
          BY <2>5, <3>1 DEF I!CurrentRows, I!Rows
        <4>2. I!CurrentRows(x)' = I!CurrentRows(x)
          BY <2>3, <2>4, <2>5, <4>1
        <4> QED
          BY <2>1, <2>2, <4>2 DEF Unexcused, AtMostOne
      <3>2. CASE rec[n].status \notin I!Current
        <4>1. I!CurrentRows(x) = {} /\ I!Adding(x) = {}
          BY <1>3, <1>12, <2>5, <3>2
        <4>2. I!CurrentRows(x)' \subseteq {n}
          BY <2>3, <2>4, <4>1
        <4> QED
          BY <2>2, <4>1, <4>2 DEF Unexcused, AtMostOne
      <3> QED
        BY <3>1, <3>2
    <2>6. CASE ~(x = title /\ status \in I!Current)
      <3>1. I!CurrentRows(x)' \subseteq I!CurrentRows(x)
        BY <2>3, <2>4, <2>6
      <3> QED
        BY <2>1, <2>2, <3>1 DEF Unexcused, AtMostOne
    <2> QED
      BY <2>5, <2>6
  <1> QED
    BY <1>10, <1>11, <1>12 DEF PassInv

\* PassInv is inductive.
LEMMA PassNext == ASSUME IsFiniteSet(Pass), PassInv, [I!Next]_I!vars PROVE PassInv'
  <1>1. CASE UNCHANGED I!vars
    BY <1>1 DEF I!vars, PassInv, PassTypes, Unexplained, Unexcused, AtMostOne, I!CurrentRows,
                I!Rows, I!Adding
  <1>2. CASE I!Next
    BY <1>2, PassGoesOn, PassFinds, PassCreates, PassStatus DEF I!Next
  <1> QED
    BY <1>1, <1>2

\* The current rows of a title that is not excused are one at most.
LEMMA AdviceIsOnce == ASSUME IsFiniteSet(Pass), PassInv PROVE I!AdviceOnce
  <1>1. insights <= passes.passes + passes.troubles
    <2>1. IsFiniteSet(Unexplained)
      BY FS_Subset DEF Unexplained
    <2>2. Cardinality(Unexplained) \in Nat
      BY <2>1, FS_CardinalityType
    <2>3. insights \in Nat /\ passes \in [passes : Nat, changes : Nat, troubles : Nat]
      BY DEF PassInv, PassTypes
    <2>4. insights + Cardinality(Unexplained) <= passes.passes + passes.troubles
      BY DEF PassInv
    <2> QED
      BY <2>2, <2>3, <2>4
  <1>2. ASSUME NEW title \in Title, title \notin excused
        PROVE  ~(I!Cardinality(I!CurrentRows(title)) > 1)
    <2>1. AtMostOne(I!CurrentRows(title))
      BY <1>2 DEF PassInv, Unexcused
    <2>2. I!Cardinality(I!CurrentRows(title)) = Cardinality(I!CurrentRows(title))
      BY DEF I!Cardinality, Cardinality
    <2>3. CASE I!CurrentRows(title) = {}
      BY <2>2, <2>3, FS_EmptySet
    <2>4. CASE I!CurrentRows(title) # {}
      <3>1. PICK n : I!CurrentRows(title) = {n}
        BY <2>1, <2>4 DEF AtMostOne
      <3>2. Cardinality({n}) = 1
        BY FS_Singleton
      <3> QED
        BY <2>2, <3>1, <3>2
    <2> QED
      BY <2>3, <2>4
  <1> QED
    BY <1>1, <1>2 DEF I!AdviceOnce

-----------------------------------------------------------------------------
(* The sentiment of a review.  The model is asked by the execution that    *)
(* has the job, or later if the review has no sentiment yet; each other    *)
(* answer goes back to something that failed.                              *)

Says == {None, "model", "stars"}

Executing == [at : {"idle", "ask", "write"}, says : Says]

Asking == {w \in Executor : exec[w].at = "ask"}

Asks(x) == IF x.at = "ask" THEN 1 ELSE 0

\* The job will be taken anew while the review has no sentiment.
Open == IF sentiment = None /\ bull.state # "active" THEN 1 ELSE 0

ReviewTypes ==
    /\ sentiment \in Says
    /\ bull \in R!Job
    /\ exec \in [Executor -> Executing]
    /\ answers \in Nat
    /\ odd \in [replaced : BOOLEAN, stalled : BOOLEAN, skipped : BOOLEAN]
    /\ analyses \in [syncs : Nat, changes : Nat, troubles : Nat]
    /\ \A w \in Executor : exec[w].at = "write" => exec[w].says # None

\* One execution at a time, and the review has no sentiment, until the job is taken for
\* stalled.
Alone ==
    ~odd.stalled =>
        \A w \in Executor : exec[w].at # "idle" =>
            bull.state = "active" /\ bull.owner = w /\ sentiment = None

ReviewInv ==
    /\ ReviewTypes
    /\ answers + Cardinality(Asking) + Open <= 1 + analyses.troubles
    /\ bull.state = "completed" => sentiment # None \/ odd.skipped
    /\ odd.replaced => odd.stalled
    /\ Alone

\* What BullMQ makes of a job.
LEMMA JobMoves ==
    ASSUME NoExecutor \notin Executor, bull \in R!Job, NEW w \in Executor
    PROVE  /\ R!NoJob \in R!Job /\ R!NoJob.state = "none"
           /\ R!Added(bull) \in R!Job
           /\ R!Added(bull) = bull \/ (bull.state = "none" /\ R!Added(bull).state = "waiting")
           /\ R!Taken(bull, w) \in R!Job
           /\ R!Taken(bull, w).state = "active" /\ R!Taken(bull, w).owner = w
           /\ R!Resolved(R!Taken(bull, w), w) \in R!Job
           /\ R!Resolved(R!Taken(bull, w), w).state = "completed"
           /\ R!Resolved(bull, w) \in R!Job
           /\ IF bull.owner = w THEN R!Resolved(bull, w).state = "completed"
                                ELSE R!Resolved(bull, w) = bull
           /\ R!Rejected(bull, w) \in R!Job
           /\ IF bull.owner = w THEN R!Rejected(bull, w).state \in {"waiting", "failed"}
                                ELSE R!Rejected(bull, w) = bull
           /\ R!Stalled(bull) \in R!Job
           /\ R!Stalled(bull).state \in {"waiting", "failed"}
  <1>1. R!NoJob \in R!Job /\ R!NoJob.state = "none"
    BY DEF R!NoJob, R!Job
  <1>2. /\ R!Added(bull) \in R!Job
        /\ R!Added(bull) = bull \/ (bull.state = "none" /\ R!Added(bull).state = "waiting")
    BY DEF R!Added, R!NoJob, R!Job
  <1>3. R!Taken(bull, w) \in R!Job /\ R!Taken(bull, w).state = "active" /\ R!Taken(bull, w).owner = w
    BY DEF R!Taken, R!Job
  <1>4. ASSUME NEW j \in R!Job
        PROVE  /\ R!Resolved(j, w) \in R!Job
               /\ IF j.owner = w THEN R!Resolved(j, w).state = "completed"
                                 ELSE R!Resolved(j, w) = j
    BY DEF R!Resolved, R!Job
  <1>5. /\ R!Rejected(bull, w) \in R!Job
        /\ IF bull.owner = w THEN R!Rejected(bull, w).state \in {"waiting", "failed"}
                             ELSE R!Rejected(bull, w) = bull
    <2> DEFINE state == IF bull.made + 1 < Attempts THEN "waiting" ELSE "failed"
               made == bull.made + 1
    <2>1. state \in {"waiting", "failed"} /\ made \in Nat
      BY DEF R!Job
    <2>2. R!Rejected(bull, w) = IF bull.owner # w THEN bull
                                ELSE [bull EXCEPT !.state = state, !.made = made, !.owner = NoExecutor]
      BY DEF R!Rejected
    <2> HIDE DEF state, made
    <2> QED
      BY <2>1, <2>2 DEF R!Job
  <1>6. R!Stalled(bull) \in R!Job /\ R!Stalled(bull).state \in {"waiting", "failed"}
    <2> DEFINE state == IF bull.stalls < StallLimit THEN "waiting" ELSE "failed"
               stalls == bull.stalls + 1
    <2>1. state \in {"waiting", "failed"} /\ stalls \in Nat
      BY DEF R!Job
    <2>2. R!Stalled(bull) = [bull EXCEPT !.state = state, !.stalls = stalls, !.owner = NoExecutor]
      BY DEF R!Stalled
    <2> HIDE DEF state, stalls
    <2> QED
      BY <2>1, <2>2 DEF R!Job
  <1> QED
    BY <1>1, <1>2, <1>3, <1>4, <1>5, <1>6

\* An execution that asks, or asks no more, is one more or one less.
LEMMA AskingStep ==
    ASSUME IsFiniteSet(Executor), exec \in [Executor -> Executing], NEW w \in Executor,
           NEW new \in Executing, exec' = [exec EXCEPT ![w] = new]
    PROVE  /\ Cardinality(Asking) \in Nat /\ Cardinality(Asking') \in Nat
           /\ Cardinality(Asking') = Cardinality(Asking) + Asks(new) - Asks(exec[w])
  <1>1. \A x \in Executor : exec'[x] = IF x = w THEN new ELSE exec[x]
    OBVIOUS
  <1> DEFINE rest == Asking \ {w}
  <1>2. IsFiniteSet(Asking) /\ IsFiniteSet(rest)
    BY FS_Subset DEF Asking
  <1>3. Asking = IF exec[w].at = "ask" THEN rest \union {w} ELSE rest
    BY DEF Asking
  <1>4. Asking' = IF new.at = "ask" THEN rest \union {w} ELSE rest
    BY <1>1 DEF Asking
  <1>5. Cardinality(rest) \in Nat /\ Cardinality(rest \union {w}) = Cardinality(rest) + 1
    BY <1>2, FS_CardinalityType, FS_AddElement
  <1> HIDE DEF rest
  <1> QED
    BY <1>3, <1>4, <1>5 DEF Asks

\* Nothing runs at first.
LEMMA ReviewInit == R!Init => ReviewInv
  <1> SUFFICES ASSUME R!Init PROVE ReviewInv
    OBVIOUS
  <1>1. Asking = {}
    BY DEF R!Init, R!Idle, Asking
  <1>2. Cardinality(Asking) = 0
    BY <1>1, FS_EmptySet
  <1>3. bull \in R!Job /\ bull.state = "none"
    BY DEF R!Init, R!NoJob, R!Job
  <1>4. exec \in [Executor -> Executing] /\ \A w \in Executor : exec[w].at = "idle"
    BY DEF R!Init, R!Idle, Executing, Says
  <1>5. ReviewTypes
    BY <1>3, <1>4 DEF R!Init, ReviewTypes, Says
  <1>6. Open = 1 /\ answers = 0 /\ analyses.troubles = 0
    BY <1>3 DEF R!Init, Open
  <1> QED
    BY <1>2, <1>3, <1>4, <1>5, <1>6 DEF R!Init, ReviewInv, Alone

\* A job is queued or forgotten while nothing runs it, and nothing is asked.
LEMMA ReviewQuiet ==
    ASSUME IsFiniteSet(Executor), NoExecutor \notin Executor, ReviewInv,
           R!Upsert \/ R!Enqueue \/ R!Forget \/ R!Change
    PROVE  ReviewInv'
  <1>1. ReviewTypes /\ Alone
    BY DEF ReviewInv
  <1>2. UNCHANGED <<sentiment, exec, answers>>
    BY DEF R!Upsert, R!Enqueue, R!Forget, R!Change
  <1>3. bull' \in R!Job /\ (bull' = bull \/ (bull.state # "active" /\ bull'.state \in {"none", "waiting"}))
    <2>1. CASE R!Enqueue
      <3>1. bull' = R!Added(bull)
        BY <2>1 DEF R!Enqueue, R!AddedOnce
      <3>2. CASE bull.state = "none"
        BY <3>1, <3>2, <1>1 DEF R!Added, R!NoJob, R!Job, ReviewTypes
      <3>3. CASE bull.state # "none"
        BY <3>1, <3>3, <1>1 DEF R!Added, ReviewTypes
      <3> QED
        BY <3>2, <3>3
    <2>2. CASE R!Forget
      BY <2>2 DEF R!Forget, R!NoJob, R!Job
    <2>3. CASE R!Upsert \/ R!Change
      BY <1>1, <2>3 DEF R!Upsert, R!Change, ReviewTypes
    <2> QED
      BY <2>1, <2>2, <2>3
  <1>4. /\ odd' \in [replaced : BOOLEAN, stalled : BOOLEAN, skipped : BOOLEAN]
        /\ odd'.replaced = odd.replaced /\ odd'.stalled = odd.stalled
        /\ bull' = bull /\ bull.state # "none" => odd'.skipped = odd.skipped
    <2>1. CASE R!Enqueue
      <3> DEFINE skips == odd.skipped /\ bull.state # "none"
      <3>1. skips \in BOOLEAN /\ (bull.state # "none" => skips = odd.skipped)
        BY <1>1 DEF ReviewTypes
      <3>2. odd' = [odd EXCEPT !.skipped = skips]
        BY <2>1 DEF R!Enqueue
      <3> HIDE DEF skips
      <3> QED
        BY <1>1, <3>1, <3>2 DEF ReviewTypes
    <2>2. CASE R!Upsert \/ R!Forget \/ R!Change
      BY <1>1, <2>2 DEF R!Upsert, R!Forget, R!Change, ReviewTypes
    <2> QED
      BY <2>1, <2>2
  <1>5. analyses' \in [syncs : Nat, changes : Nat, troubles : Nat] /\ analyses'.troubles = analyses.troubles
    BY <1>1 DEF R!Upsert, R!Enqueue, R!Forget, R!Change, ReviewTypes
  <1>6. ReviewTypes'
    BY <1>1, <1>2, <1>3, <1>4, <1>5 DEF ReviewTypes
  <1>7. answers' + Cardinality(Asking') + Open' <= 1 + analyses'.troubles
    <2>1. Asking' = Asking
      BY <1>2 DEF Asking
    <2>2. Open' = Open
      BY <1>2, <1>3 DEF Open
    <2> QED
      BY <1>2, <1>5, <2>1, <2>2 DEF ReviewInv
  <1>8. bull'.state = "completed" => sentiment' # None \/ odd'.skipped
    BY <1>2, <1>3, <1>4 DEF ReviewInv
  <1>9. Alone'
    BY <1>1, <1>2, <1>3, <1>4 DEF Alone
  <1> QED
    BY <1>4, <1>6, <1>7, <1>8, <1>9 DEF ReviewInv

\* A worker takes the job, or has nothing to do with it.
LEMMA ReviewBegins ==
    ASSUME IsFiniteSet(Executor), NoExecutor \notin Executor, ReviewInv, NEW w \in Executor, R!Begin(w)
    PROVE  ReviewInv'
  <1>1. ReviewTypes /\ Alone /\ bull \in R!Job /\ exec \in [Executor -> Executing]
    BY DEF ReviewInv, ReviewTypes
  <1>2. /\ bull.state = "waiting" /\ exec[w] = R!Idle
        /\ UNCHANGED <<sentiment, answers, analyses>>
    BY DEF R!Begin
  <1>3. CASE ~configured \/ R!Analyzed
    <2> DEFINE skips == odd.skipped \/ ~R!Analyzed
    <2>1. bull' = R!Resolved(R!Taken(bull, w), w) /\ odd' = [odd EXCEPT !.skipped = skips]
          /\ UNCHANGED exec
      BY <1>3 DEF R!Begin
    <2>2. bull' \in R!Job /\ bull'.state = "completed"
      BY <1>1, <2>1, JobMoves
    <2>3. skips \in BOOLEAN /\ (skips \/ sentiment # None)
      BY <1>1 DEF ReviewTypes, R!Analyzed
    <2> HIDE DEF skips
    <2>4. /\ odd' \in [replaced : BOOLEAN, stalled : BOOLEAN, skipped : BOOLEAN]
          /\ odd'.replaced = odd.replaced /\ odd'.stalled = odd.stalled
          /\ odd'.skipped \/ sentiment # None
      BY <1>1, <2>1, <2>3 DEF ReviewTypes
    <2>5. ReviewTypes'
      BY <1>1, <1>2, <2>1, <2>2, <2>4 DEF ReviewTypes
    <2>6. answers' + Cardinality(Asking') + Open' <= 1 + analyses'.troubles
      <3>1. Asking' = Asking /\ Open' = Open
        BY <1>2, <2>1, <2>2 DEF Asking, Open
      <3> QED
        BY <1>2, <3>1 DEF ReviewInv
    <2>7. Alone'
      BY <1>1, <1>2, <2>1, <2>4 DEF Alone
    <2> QED
      BY <1>2, <2>4, <2>5, <2>6, <2>7 DEF ReviewInv
  <1>4. CASE configured /\ ~R!Analyzed
    <2> DEFINE new == [at |-> "ask", says |-> None]
    <2>1. bull' = R!Taken(bull, w) /\ exec' = [exec EXCEPT ![w] = new] /\ UNCHANGED odd
      BY <1>4 DEF R!Begin
    <2>2. new \in Executing /\ new.at = "ask" /\ exec[w].at = "idle"
      BY <1>2 DEF Executing, Says, R!Idle
    <2> HIDE DEF new
    <2>3. bull' \in R!Job /\ bull'.state = "active" /\ bull'.owner = w
      BY <1>1, <2>1, JobMoves
    <2>4. sentiment = None
      BY <1>4 DEF R!Analyzed
    <2>5. \A x \in Executor : exec'[x] = IF x = w THEN new ELSE exec[x]
      BY <1>1, <2>1
    <2>6. ReviewTypes'
      BY <1>1, <1>2, <2>1, <2>2, <2>3, <2>5 DEF ReviewTypes
    <2>7. answers' + Cardinality(Asking') + Open' <= 1 + analyses'.troubles
      <3>1. /\ Cardinality(Asking) \in Nat /\ Cardinality(Asking') \in Nat
            /\ Cardinality(Asking') = Cardinality(Asking) + Asks(new) - Asks(exec[w])
        BY <1>1, <2>1, <2>2, AskingStep
      <3>2. Open = 1 /\ Open' = 0 /\ Asks(new) = 1 /\ Asks(exec[w]) = 0
        BY <1>2, <2>2, <2>3, <2>4 DEF Open, Asks
      <3>3. answers \in Nat /\ analyses.troubles \in Nat
        BY <1>1 DEF ReviewTypes
      <3> QED
        BY <1>2, <3>1, <3>2, <3>3 DEF ReviewInv
    <2>8. Alone'
      BY <1>1, <1>2, <2>1, <2>3, <2>4, <2>5 DEF Alone
    <2> QED
      BY <2>1, <2>3, <2>6, <2>7, <2>8 DEF ReviewInv
  <1> QED
    BY <1>3, <1>4

\* The model answers, or the stars must do.
LEMMA ReviewAsks ==
    ASSUME IsFiniteSet(Executor), ReviewInv, None \notin {"model", "stars"},
           NEW w \in Executor, R!Ask(w)
    PROVE  ReviewInv'
  <1>1. ReviewTypes /\ Alone /\ exec \in [Executor -> Executing] /\ answers \in Nat
        /\ analyses.troubles \in Nat
    BY DEF ReviewInv, ReviewTypes
  <1> DEFINE new == [at |-> "write", says |-> IF budget THEN "model" ELSE "stars"]
  <1>2. /\ exec[w].at = "ask" /\ exec' = [exec EXCEPT ![w] = new]
        /\ UNCHANGED <<sentiment, bull, odd, analyses>>
    BY DEF R!Ask
  <1>3. answers' \in Nat /\ answers' <= answers + 1
    BY <1>1 DEF R!Ask
  <1>4. new \in Executing /\ new.at = "write" /\ new.says # None
    BY DEF Executing, Says
  <1> HIDE DEF new
  <1>5. \A x \in Executor : exec'[x] = IF x = w THEN new ELSE exec[x]
    BY <1>1, <1>2
  <1>6. ReviewTypes'
    BY <1>1, <1>2, <1>3, <1>4, <1>5 DEF ReviewTypes
  <1>7. answers' + Cardinality(Asking') + Open' <= 1 + analyses'.troubles
    <2>1. /\ Cardinality(Asking) \in Nat /\ Cardinality(Asking') \in Nat
          /\ Cardinality(Asking') = Cardinality(Asking) + Asks(new) - Asks(exec[w])
      BY <1>1, <1>2, <1>4, AskingStep
    <2>2. Open' = Open /\ Open \in {0, 1} /\ Asks(new) = 0 /\ Asks(exec[w]) = 1
      BY <1>2, <1>4 DEF Open, Asks
    <2> QED
      BY <1>1, <1>2, <1>3, <2>1, <2>2 DEF ReviewInv
  <1>8. Alone'
    BY <1>1, <1>2, <1>5 DEF Alone
  <1> QED
    BY <1>2, <1>6, <1>7, <1>8 DEF ReviewInv

\* What an execution ends with: the sentiment it writes, or an error.
LEMMA ReviewEnds ==
    ASSUME IsFiniteSet(Executor), NoExecutor \notin Executor, ReviewInv, None \notin {"model", "stars"},
           NEW w \in Executor, R!AskFails(w) \/ R!Write(w) \/ R!WriteFails(w)
    PROVE  ReviewInv'
  <1>1. /\ ReviewTypes /\ Alone /\ exec \in [Executor -> Executing] /\ answers \in Nat
        /\ bull \in R!Job /\ analyses.troubles \in Nat
    BY DEF ReviewInv, ReviewTypes
  <1>2. R!Idle \in Executing /\ R!Idle.at = "idle" /\ Asks(R!Idle) = 0
    BY DEF R!Idle, Executing, Says, Asks
  <1>3. exec' = [exec EXCEPT ![w] = R!Idle] /\ answers' = answers /\ exec[w].at \in {"ask", "write"}
    BY DEF R!AskFails, R!Write, R!WriteFails, R!Throws, R!Ends
  <1>4. \A x \in Executor : exec'[x] = IF x = w THEN R!Idle ELSE exec[x]
    BY <1>1, <1>3
  <1>5. /\ Cardinality(Asking) \in Nat /\ Cardinality(Asking') \in Nat
        /\ Cardinality(Asking') = Cardinality(Asking) - Asks(exec[w])
    <2>1. /\ Cardinality(Asking) \in Nat /\ Cardinality(Asking') \in Nat
          /\ Cardinality(Asking') = Cardinality(Asking) + Asks(R!Idle) - Asks(exec[w])
      BY <1>1, <1>2, <1>3, AskingStep
    <2>2. Asks(exec[w]) \in {0, 1}
      BY DEF Asks
    <2> QED
      BY <1>2, <2>1, <2>2
  <1>6. CASE R!Write(w)
    <2>1. /\ exec[w].at = "write" /\ sentiment' = exec[w].says /\ bull' = R!Resolved(bull, w)
          /\ odd' = [odd EXCEPT !.replaced = @ \/ (sentiment = "model" /\ sentiment' = "stars")]
          /\ UNCHANGED analyses
      BY <1>6 DEF R!Write, R!Ends
    <2>2. sentiment' \in Says /\ sentiment' # None
      BY <1>1, <2>1 DEF ReviewTypes, Executing
    <2>3. bull' \in R!Job
      BY <1>1, <2>1, JobMoves
    <2> DEFINE gives == odd.replaced \/ (sentiment = "model" /\ sentiment' = "stars")
    <2>4. gives \in BOOLEAN /\ odd' = [odd EXCEPT !.replaced = gives]
      BY <1>1, <2>1 DEF ReviewTypes
    <2>5. gives => odd.stalled
      <3>1. ~odd.stalled => sentiment = None
        BY <1>1, <2>1 DEF Alone
      <3> QED
        BY <3>1 DEF ReviewInv
    <2> HIDE DEF gives
    <2>6. /\ odd' \in [replaced : BOOLEAN, stalled : BOOLEAN, skipped : BOOLEAN]
          /\ odd'.replaced => odd'.stalled
          /\ odd'.stalled = odd.stalled
      BY <1>1, <2>4, <2>5 DEF ReviewTypes
    <2>7. ReviewTypes'
      BY <1>1, <1>2, <1>3, <1>4, <2>1, <2>2, <2>3, <2>6 DEF ReviewTypes
    <2>8. answers' + Cardinality(Asking') + Open' <= 1 + analyses'.troubles
      <3>1. Open' = 0 /\ Open \in {0, 1} /\ Asks(exec[w]) = 0
        BY <2>1, <2>2 DEF Open, Asks
      <3> QED
        BY <1>1, <1>3, <1>5, <2>1, <3>1 DEF ReviewInv
    <2>9. Alone'
      BY <1>1, <1>2, <1>3, <1>4, <2>6 DEF Alone
    <2> QED
      BY <2>2, <2>6, <2>7, <2>8, <2>9 DEF ReviewInv
  <1>7. CASE R!AskFails(w) \/ R!WriteFails(w)
    <2>1. /\ bull' = R!Rejected(bull, w) /\ UNCHANGED <<sentiment, odd>>
          /\ analyses' = [analyses EXCEPT !.troubles = @ + 1]
      BY <1>7 DEF R!AskFails, R!WriteFails, R!Throws, R!Spend
    <2>2. bull' \in R!Job /\ (bull' = bull \/ bull'.state \in {"waiting", "failed"})
      BY <1>1, <2>1, JobMoves
    <2>3. /\ analyses' \in [syncs : Nat, changes : Nat, troubles : Nat]
          /\ analyses'.troubles = analyses.troubles + 1
      BY <1>1, <2>1 DEF ReviewTypes
    <2>4. ReviewTypes'
      BY <1>1, <1>2, <1>3, <1>4, <2>1, <2>2, <2>3 DEF ReviewTypes
    <2>5. answers' + Cardinality(Asking') + Open' <= 1 + analyses'.troubles
      <3>1. Open' \in {0, 1} /\ Open \in {0, 1} /\ Asks(exec[w]) \in {0, 1}
        BY DEF Open, Asks
      <3> QED
        BY <1>1, <1>3, <1>5, <2>3, <3>1 DEF ReviewInv
    <2>6. Alone'
      BY <1>1, <1>2, <1>3, <1>4, <2>1 DEF Alone
    <2> QED
      BY <2>1, <2>2, <2>4, <2>5, <2>6 DEF ReviewInv
  <1> QED
    BY <1>6, <1>7

\* The job is taken for stalled: from then on two executions may run it.
LEMMA ReviewStalls ==
    ASSUME IsFiniteSet(Executor), NoExecutor \notin Executor, ReviewInv, R!Stall
    PROVE  ReviewInv'
  <1>1. /\ ReviewTypes /\ exec \in [Executor -> Executing] /\ answers \in Nat
        /\ bull \in R!Job /\ analyses.troubles \in Nat
    BY DEF ReviewInv, ReviewTypes
  <1>2. R!Idle \in Executing /\ R!Idle.at = "idle" /\ Asks(R!Idle) = 0
    BY DEF R!Idle, Executing, Says, Asks
  <1>3. /\ bull' = R!Stalled(bull) /\ odd' = [odd EXCEPT !.stalled = TRUE]
        /\ analyses' = [analyses EXCEPT !.troubles = @ + 1]
        /\ UNCHANGED <<sentiment, answers>>
        /\ exec' = exec \/ exec' = [exec EXCEPT ![bull.owner] = R!Idle]
    BY DEF R!Stall, R!Spend
  <1>4. bull' \in R!Job /\ bull'.state \in {"waiting", "failed"}
    <2> DEFINE state == IF bull.stalls < StallLimit THEN "waiting" ELSE "failed"
               stalls == bull.stalls + 1
    <2>1. state \in {"waiting", "failed"} /\ stalls \in Nat
      BY <1>1 DEF R!Job
    <2>2. bull' = [bull EXCEPT !.state = state, !.stalls = stalls, !.owner = NoExecutor]
      BY <1>3 DEF R!Stalled
    <2> HIDE DEF state, stalls
    <2> QED
      BY <1>1, <2>1, <2>2 DEF R!Job
  <1>5. /\ analyses' \in [syncs : Nat, changes : Nat, troubles : Nat]
        /\ analyses'.troubles = analyses.troubles + 1
    BY <1>1, <1>3 DEF ReviewTypes
  <1>6. /\ odd' \in [replaced : BOOLEAN, stalled : BOOLEAN, skipped : BOOLEAN] /\ odd'.stalled
    BY <1>1, <1>3 DEF ReviewTypes
  <1>7. exec' \in [Executor -> Executing] /\ \A x \in Executor : exec'[x] \in {exec[x], R!Idle}
    BY <1>1, <1>2, <1>3
  <1>8. ReviewTypes'
    BY <1>1, <1>2, <1>3, <1>4, <1>5, <1>6, <1>7 DEF ReviewTypes
  <1>9. answers' + Cardinality(Asking') + Open' <= 1 + analyses'.troubles
    <2>1. IsFiniteSet(Asking) /\ Asking' \subseteq Asking
      BY <1>2, <1>7, FS_Subset DEF Asking
    <2>2. Cardinality(Asking) \in Nat /\ Cardinality(Asking') \in Nat
          /\ Cardinality(Asking') <= Cardinality(Asking)
      BY <2>1, FS_CardinalityType, FS_Subset
    <2>3. Open' \in {0, 1} /\ Open \in {0, 1}
      BY DEF Open
    <2> QED
      BY <1>1, <1>3, <1>5, <2>2, <2>3 DEF ReviewInv
  <1> QED
    BY <1>4, <1>6, <1>8, <1>9 DEF ReviewInv, Alone

\* ReviewInv is inductive.
LEMMA ReviewNext ==
    ASSUME IsFiniteSet(Executor), NoExecutor \notin Executor, None \notin {"model", "stars"},
           ReviewInv, [R!Next]_R!vars
    PROVE  ReviewInv'
  <1>1. CASE UNCHANGED R!vars
    BY <1>1 DEF R!vars, ReviewInv, ReviewTypes, Asking, Open, Alone
  <1>2. CASE R!Next
    BY <1>2, ReviewQuiet, ReviewBegins, ReviewAsks, ReviewEnds, ReviewStalls DEF R!Next
  <1> QED
    BY <1>1, <1>2

\* The answers are one, and one for each failure.
LEMMA ReviewAnalyzedOnce == ASSUME IsFiniteSet(Executor), ReviewInv PROVE R!AnalyzedOnce
  <1>1. IsFiniteSet(Asking)
    BY FS_Subset DEF Asking
  <1>2. Cardinality(Asking) \in Nat
    BY <1>1, FS_CardinalityType
  <1>3. Open \in {0, 1}
    BY DEF Open
  <1>4. answers \in Nat /\ analyses.troubles \in Nat
    BY DEF ReviewInv, ReviewTypes
  <1> QED
    BY <1>2, <1>3, <1>4 DEF ReviewInv, R!AnalyzedOnce

\* The insight pass and review.classify: what is unusual is explained, and a review's
\* sentiment asked for, once, and once more for each failure, and no advice stands in the
\* list twice but for passes that were about to add it at once.
THEOREM AiWorkIsDoneOnce ==
    ASSUME IsFiniteSet(Pass), IsFiniteSet(Executor), NoExecutor \notin Executor,
           None \notin {"model", "stars"}
    PROVE  I!Spec /\ R!Spec => [](I!AdviceOnce /\ R!AnalyzedOnce /\ AiWorkOnce)
  <1>1. I!Spec => []I!AdviceOnce
    BY AdviceIsOnce, PassInit, PassNext, PTL DEF I!Spec
  <1>2. R!Spec => []R!AnalyzedOnce
    BY ReviewAnalyzedOnce, ReviewInit, ReviewNext, PTL DEF R!Spec
  <1>3. I!AdviceOnce /\ R!AnalyzedOnce => AiWorkOnce
    BY DEF AiWorkOnce
  <1> QED
    BY <1>1, <1>2, <1>3, PTL


-----------------------------------------------------------------------------
(* The competitors of an app.  An identity is never given twice, so a sync *)
(* that finds the row it has loaded finds its snapshots, too; and while    *)
(* syncs do not overlap, they are as it has left them.                     *)

WatchRow == [id : Nat, tracked : BOOLEAN]

WatchSync ==
    [at : {"idle", "count", "upsert", "load", "page", "compare", "create", "update"},
     found : SUBSET Rival, new : BOOLEAN, todo : SUBSET (Rival \X Nat), id : Nat, detail : Nat,
     rival : SUBSET Rival, began : [Rival -> Nat] \union {<<>>}, done : SUBSET (Rival \X Nat)]

Budgets == {"syncs", "changes", "releases", "troubles"}

WatchTypes ==
    /\ page \in [Rival -> Nat]
    /\ competitor \in [Rival -> WatchRow]
    /\ listed \in Nat
    /\ snap \in [Rival -> Seq(Nat)]
    /\ watch \in [Watcher -> WatchSync]
    /\ unranked \subseteq Rival
    /\ mixed \in BOOLEAN
    /\ wishes \in [Budgets -> Nat]
    /\ DOMAIN word = Rival

Last(snapshots) == IF snapshots = <<>> THEN 0 ELSE snapshots[1]

\* A row as the members have left it.
Kept(r) ==
    /\ competitor[r].id <= listed
    /\ competitor[r].tracked => competitor[r].id # 0
    /\ word[r] = "untracked" => competitor[r].id # 0 /\ ~competitor[r].tracked
    /\ Len(snap[r]) <= 2
    /\ Len(snap[r]) = 2 /\ ~mixed => snap[r][1] # snap[r][2]

\* What a sync has loaded there was.
Fine(s, pages, n) ==
    /\ s.at = "idle" => s = W!Idle
    /\ s.at # "idle" => s.began \in [Rival -> Nat] /\ \A r \in Rival : s.began[r] <= pages[r]
    /\ \A k \in s.todo \union s.done : k[2] \in 1 .. n
    /\ \A a, b \in s.rival : a = b
    /\ s.at \in {"compare", "create", "update"} =>
         s.id \in 1 .. n /\ \A r \in s.rival : s.detail >= s.began[r]

\* And what a sync that is alone knows of the snapshots is so.
Knows(s, rivals, snapshots) ==
    /\ \A r \in s.rival : rivals[r].id = s.id =>
         /\ s.at = "create" => Last(snapshots[r]) # s.detail
         /\ s.at = "update" => Last(snapshots[r]) = s.detail
    /\ \A r \in Rival : <<r, rivals[r].id>> \in s.done => Last(snapshots[r]) >= s.began[r]

Single(syncs) == \A x, y \in Watcher : syncs[x].at # "idle" /\ syncs[y].at # "idle" => x = y

\* The ranks of what is new are still to be asked for.
WillAsk(s) == s.new /\ s.at \in {"count", "upsert"}

WatchInv ==
    /\ WatchTypes
    /\ \A r \in Rival : Kept(r)
    /\ \A x \in Watcher :
        /\ Fine(watch[x], page, listed)
        /\ ~mixed => Knows(watch[x], competitor, snap)
    /\ ~mixed => Single(watch)
    /\ W!RanksAsked

\* Of no competitor at first.
LEMMA WatchInit == W!Init => WatchInv
  <1> SUFFICES ASSUME W!Init PROVE WatchInv
    OBVIOUS
  <1>1. WatchTypes
    <2>1. W!Idle \in WatchSync /\ W!NoRow \in WatchRow
      BY DEF W!Idle, W!NoRow, WatchRow, WatchSync
    <2>2. <<>> \in Seq(Nat)
      OBVIOUS
    <2>3. wishes \in [Budgets -> Nat] /\ DOMAIN word = Rival
      BY DEF W!Init, Budgets
    <2> QED
      BY <2>1, <2>2, <2>3 DEF W!Init, WatchTypes
  <1>2. \A r \in Rival : Kept(r)
    BY DEF W!Init, W!NoRow, Kept
  <1>3. \A x \in Watcher : watch[x] = W!Idle
    BY DEF W!Init
  <1>4. Fine(W!Idle, page, listed) /\ Knows(W!Idle, competitor, snap)
    BY DEF W!Idle, Fine, Knows
  <1>5. Single(watch)
    BY <1>3 DEF W!Idle, Single
  <1>6. W!RanksAsked
    BY DEF W!Init, W!RanksAsked
  <1> QED
    BY <1>1, <1>2, <1>3, <1>4, <1>5, <1>6 DEF WatchInv

\* Pages move on, rows are added, and a row that is added anew has an identity of its own:
\* what a sync knows stays so.
LEMMA StillKnown ==
    ASSUME NEW s \in WatchSync, NEW p0 \in [Rival -> Nat], NEW p1 \in [Rival -> Nat],
           NEW n0 \in Nat, NEW n1 \in Nat,
           NEW c0, NEW c1 \in [Rival -> WatchRow], NEW t0, NEW t1,
           Fine(s, p0, n0), \A r \in Rival : p0[r] <= p1[r], n0 <= n1,
           \A r \in Rival : (c1[r].id = c0[r].id /\ t1[r] = t0[r]) \/ c1[r].id \notin 1 .. n0
    PROVE  Fine(s, p1, n1) /\ (Knows(s, c0, t0) => Knows(s, c1, t1))
  <1>1. Fine(s, p1, n1)
    <2>1. s.at # "idle" => \A r \in Rival : s.began[r] <= p1[r]
      <3> SUFFICES ASSUME s.at # "idle", NEW r \in Rival PROVE s.began[r] <= p1[r]
        OBVIOUS
      <3>1. s.began \in [Rival -> Nat] /\ s.began[r] <= p0[r]
        BY DEF Fine
      <3>2. s.began[r] \in Nat /\ p0[r] \in Nat /\ p1[r] \in Nat /\ p0[r] <= p1[r]
        BY <3>1
      <3> QED
        BY <3>1, <3>2
    <2>2. 1 .. n0 \subseteq 1 .. n1
      OBVIOUS
    <2> QED
      BY <2>1, <2>2 DEF Fine
  <1>2. ASSUME Knows(s, c0, t0) PROVE Knows(s, c1, t1)
    <2>1. ASSUME NEW r \in s.rival, c1[r].id = s.id
          PROVE  /\ s.at = "create" => Last(t1[r]) # s.detail
                 /\ s.at = "update" => Last(t1[r]) = s.detail
      <3>1. r \in Rival
        BY DEF WatchSync
      <3> QED
        BY <1>2, <2>1, <3>1 DEF Fine, Knows
    <2>2. ASSUME NEW r \in Rival, <<r, c1[r].id>> \in s.done
          PROVE  Last(t1[r]) >= s.began[r]
      <3>1. c1[r].id \in 1 .. n0
        BY <2>2 DEF Fine
      <3>2. c1[r].id = c0[r].id /\ t1[r] = t0[r]
        BY <3>1
      <3> QED
        BY <1>2, <2>2, <3>2 DEF Knows
    <2> QED
      BY <2>1, <2>2 DEF Knows
  <1> QED
    BY <1>1, <1>2

\* A sync goes on, and writes nothing.
LEMMA WatchGoesOn ==
    ASSUME WatchInv, NEW x \in Watcher, NEW new \in WatchSync, watch' = [watch EXCEPT ![x] = new],
           UNCHANGED <<page, competitor, listed, snap, word, lost, mixed>>,
           watch[x].at # "idle", unranked' \subseteq unranked,
           wishes' \in [Budgets -> Nat], wishes'["troubles"] >= wishes["troubles"],
           Fine(new, page, listed), ~mixed => Knows(new, competitor, snap),
           WillAsk(watch[x]) => WillAsk(new) \/ wishes'["troubles"] > 0 \/ unranked' = {}
    PROVE  WatchInv'
  <1>1. WatchTypes
    BY DEF WatchInv
  <1>2. \A y \in Watcher : watch'[y] = IF y = x THEN new ELSE watch[y]
    BY <1>1 DEF WatchTypes
  <1>3. WatchTypes'
    BY <1>1, <1>2 DEF WatchTypes
  <1>4. \A r \in Rival : Kept(r)'
    BY DEF WatchInv, Kept
  <1>5. \A y \in Watcher : Fine(watch'[y], page', listed')
                             /\ (~mixed' => Knows(watch'[y], competitor', snap'))
    BY <1>2 DEF WatchInv
  <1>6. ~mixed' => Single(watch')
    BY <1>2 DEF WatchInv, Single
  <1>7. W!RanksAsked'
    <2> SUFFICES ASSUME NEW r \in unranked'
                 PROVE  \/ \E y \in Watcher : WillAsk(watch'[y])
                        \/ wishes'["troubles"] > 0 \/ r \in lost
      BY DEF W!RanksAsked, WillAsk
    <2>1. \/ \E y \in Watcher : WillAsk(watch[y])
          \/ wishes["troubles"] > 0 \/ r \in lost
      BY DEF WatchInv, W!RanksAsked, WillAsk
    <2>2. wishes["troubles"] > 0 => wishes'["troubles"] > 0
      BY <1>1 DEF WatchTypes, Budgets
    <2> QED
      BY <1>2, <2>1, <2>2
  <1> QED
    BY <1>3, <1>4, <1>5, <1>6, <1>7 DEF WatchInv

\* A budget is spent.
LEMMA WishSpent ==
    ASSUME WatchTypes, NEW b \in Budgets, NEW limit, W!Spend(b, limit)
    PROVE  /\ wishes' \in [Budgets -> Nat] /\ wishes'["troubles"] >= wishes["troubles"]
           /\ b = "troubles" => wishes'["troubles"] > 0
  <1>1. wishes \in [Budgets -> Nat] /\ wishes' = [wishes EXCEPT ![b] = wishes[b] + 1]
    BY DEF WatchTypes, W!Spend
  <1> QED
    BY <1>1 DEF Budgets

\* A sync begins: alone, or the syncs are mixed from then on.
LEMMA WatchBegin == ASSUME WatchInv, NEW x \in Watcher, W!Begin(x) PROVE WatchInv'
  <1>1. WatchTypes /\ watch \in [Watcher -> WatchSync] /\ page \in [Rival -> Nat]
    BY DEF WatchInv, WatchTypes
  <1>2. PICK found \in SUBSET Rival :
            watch' = [watch EXCEPT ![x] = [W!Idle EXCEPT !.at = "count", !.found = found,
                                                         !.began = page]]
    BY DEF W!Begin
  <1> DEFINE new == [W!Idle EXCEPT !.at = "count", !.found = found, !.began = page]
  <1>3. watch' = [watch EXCEPT ![x] = new]
    BY <1>2
  <1>4. /\ new \in WatchSync /\ new.at = "count" /\ new.began = page
        /\ new.todo = {} /\ new.done = {} /\ new.rival = {}
    <2>1. W!Idle \in WatchSync /\ W!Idle.todo = {} /\ W!Idle.done = {} /\ W!Idle.rival = {}
      BY DEF W!Idle, WatchSync
    <2> QED
      BY <1>1, <2>1 DEF WatchSync
  <1>5. Fine(new, page, listed) /\ Knows(new, competitor, snap)
    <2> HIDE DEF new
    <2>1. \A r \in Rival : page[r] <= page[r]
      BY <1>1
    <2> QED
      BY <1>1, <1>4, <2>1 DEF Fine, Knows
  <1>6. watch[x] = W!Idle /\ mixed' = (mixed \/ \E y \in Watcher \ {x} : watch[y] # W!Idle)
        /\ UNCHANGED <<page, competitor, listed, snap, unranked, word, lost>>
    BY DEF W!Begin
  <1>7. wishes' \in [Budgets -> Nat] /\ wishes'["troubles"] >= wishes["troubles"]
    BY <1>1, WishSpent DEF W!Begin, Budgets
  <1> HIDE DEF new
  <1>8. \A y \in Watcher : watch'[y] = IF y = x THEN new ELSE watch[y]
    BY <1>1, <1>3
  <1>9. WatchTypes'
    <2>1. mixed' \in BOOLEAN
      BY <1>6
    <2> QED
      BY <1>1, <1>3, <1>4, <1>6, <1>7, <2>1 DEF WatchTypes
  <1>10. \A r \in Rival : Kept(r)'
    BY <1>6 DEF WatchInv, Kept
  <1>11. \A y \in Watcher : Fine(watch'[y], page', listed')
                             /\ (~mixed' => Knows(watch'[y], competitor', snap'))
    BY <1>5, <1>6, <1>8 DEF WatchInv
  <1>12. ~mixed' => Single(watch')
    <2>1. W!Idle.at = "idle"
      BY DEF W!Idle
    <2> QED
      BY <1>6, <1>8, <2>1 DEF Single
  <1>13. W!RanksAsked'
    <2> SUFFICES ASSUME NEW r \in unranked'
                 PROVE  \/ \E y \in Watcher : WillAsk(watch'[y])
                        \/ wishes'["troubles"] > 0 \/ r \in lost'
      BY DEF W!RanksAsked, WillAsk
    <2>1. \/ \E y \in Watcher : WillAsk(watch[y])
          \/ wishes["troubles"] > 0 \/ r \in lost
      BY <1>6 DEF WatchInv, W!RanksAsked, WillAsk
    <2>2. wishes["troubles"] > 0 => wishes'["troubles"] > 0
      BY <1>1, <1>7 DEF WatchTypes, Budgets
    <2>3. ~WillAsk(watch[x])
      BY <1>6 DEF W!Idle, WillAsk
    <2> QED
      BY <1>6, <1>8, <2>1, <2>2, <2>3
  <1> QED
    BY <1>9, <1>10, <1>11, <1>12, <1>13 DEF WatchInv

\* Discovery looks at a row, asks for ranks, and loads what is tracked.
LEMMA WatchDiscovers ==
    ASSUME WatchInv, NEW x \in Watcher,
           (\E r \in Rival : W!Count(x, r)) \/ W!AskRanks(x) \/ W!Load(x)
    PROVE  WatchInv'
  <1> DEFINE w == watch[x]
  <1>1. /\ WatchTypes /\ w \in WatchSync /\ Fine(w, page, listed)
        /\ (~mixed => Knows(w, competitor, snap))
        /\ wishes \in [Budgets -> Nat] /\ wishes["troubles"] >= wishes["troubles"]
    BY DEF WatchInv, WatchTypes, Budgets
  <1>2. ASSUME NEW r \in Rival, W!Count(x, r) PROVE WatchInv'
    <2> DEFINE isNew == w.new \/ competitor[r].id = 0
               new == [w EXCEPT !.at = "upsert", !.rival = {r}, !.new = isNew]
    <2>1. isNew \in BOOLEAN /\ (w.new => isNew)
      BY <1>1 DEF WatchSync
    <2>2. /\ watch' = [watch EXCEPT ![x] = new] /\ w.at = "count"
          /\ UNCHANGED <<page, competitor, listed, snap, unranked, word, lost, mixed, wishes>>
      BY <1>2 DEF W!Count
    <2> HIDE DEF isNew
    <2>3. /\ new \in WatchSync /\ new.at = "upsert" /\ new.new = isNew /\ new.began = w.began
          /\ new.todo = w.todo /\ new.done = w.done /\ new.rival = {r}
      BY <1>1, <2>1 DEF WatchSync
    <2> HIDE DEF new
    <2>4. Fine(new, page, listed) /\ (~mixed => Knows(new, competitor, snap))
      BY <1>1, <2>2, <2>3 DEF Fine, Knows
    <2>5. WillAsk(w) => WillAsk(new)
      BY <2>1, <2>3 DEF WillAsk
    <2> QED
      BY <1>1, <2>2, <2>3, <2>4, <2>5, WatchGoesOn
  <1>3. CASE W!AskRanks(x)
    <2> DEFINE new == [w EXCEPT !.at = "load"]
    <2>1. /\ watch' = [watch EXCEPT ![x] = new] /\ w.at = "count"
          /\ unranked' = IF w.new THEN {} ELSE unranked
          /\ UNCHANGED <<page, competitor, listed, snap, word, lost, mixed, wishes>>
      BY <1>3 DEF W!AskRanks
    <2>2. /\ new \in WatchSync /\ new.at = "load" /\ new.began = w.began
          /\ new.todo = w.todo /\ new.done = w.done /\ new.rival = w.rival
      BY <1>1 DEF WatchSync
    <2> HIDE DEF new
    <2>3. Fine(new, page, listed) /\ (~mixed => Knows(new, competitor, snap))
      BY <1>1, <2>1, <2>2 DEF Fine, Knows
    <2>4. WillAsk(w) => unranked' = {}
      BY <2>1 DEF WillAsk
    <2> QED
      BY <1>1, <2>1, <2>2, <2>3, <2>4, WatchGoesOn
  <1>4. CASE W!Load(x)
    <2> DEFINE todo == {<<r, competitor[r].id>> : r \in W!Tracked}
               new == [w EXCEPT !.at = "page", !.todo = todo]
    <2>1. /\ watch' = [watch EXCEPT ![x] = new] /\ w.at = "load"
          /\ UNCHANGED <<page, competitor, listed, snap, unranked, word, lost, mixed, wishes>>
      BY <1>4 DEF W!Load
    <2>2. todo \subseteq Rival \X Nat /\ \A k \in todo : k[2] \in 1 .. listed
      <3> SUFFICES ASSUME NEW r \in W!Tracked
                   PROVE  r \in Rival /\ competitor[r].id \in Nat /\ competitor[r].id \in 1 .. listed
        OBVIOUS
      <3>1. r \in Rival /\ competitor[r].tracked
        BY DEF W!Tracked
      <3>2. competitor[r] \in WatchRow /\ listed \in Nat
        BY <1>1, <3>1 DEF WatchTypes
      <3>3. Kept(r)
        BY <3>1 DEF WatchInv
      <3> QED
        BY <3>1, <3>2, <3>3 DEF Kept, WatchRow
    <2> HIDE DEF todo
    <2>3. /\ new \in WatchSync /\ new.at = "page" /\ new.began = w.began
          /\ new.todo = todo /\ new.done = w.done /\ new.rival = w.rival
      BY <1>1, <2>2 DEF WatchSync
    <2> HIDE DEF new
    <2>4. Fine(new, page, listed) /\ (~mixed => Knows(new, competitor, snap))
      BY <1>1, <2>1, <2>2, <2>3 DEF Fine, Knows
    <2>5. ~WillAsk(w)
      BY <2>1 DEF WillAsk
    <2> QED
      BY <1>1, <2>1, <2>3, <2>4, <2>5, WatchGoesOn
  <1> QED
    BY <1>2, <1>3, <1>4

\* A sync reads a page and compares it.
LEMMA WatchCompares ==
    ASSUME WatchInv, NEW x \in Watcher, NEW r \in Rival,
           W!GetApp(x, r) \/ W!NoDetail(x, r) \/ W!Compare(x, r)
    PROVE  WatchInv'
  <1> DEFINE w == watch[x]
  <1>1. /\ WatchTypes /\ w \in WatchSync /\ Fine(w, page, listed)
        /\ (~mixed => Knows(w, competitor, snap))
        /\ wishes \in [Budgets -> Nat] /\ wishes["troubles"] >= wishes["troubles"]
        /\ page[r] \in Nat
    BY DEF WatchInv, WatchTypes, Budgets
  <1>2. CASE W!GetApp(x, r)
    <2>1. PICK k \in w.todo :
            /\ k[1] = r
            /\ watch' = [watch EXCEPT ![x].at = "compare", ![x].todo = @ \ {k}, ![x].rival = {r},
                                      ![x].id = k[2], ![x].detail = page[r]]
      BY <1>2 DEF W!GetApp
    <2>2. /\ w.at = "page"
          /\ UNCHANGED <<page, competitor, listed, snap, unranked, word, lost, mixed, wishes>>
      BY <1>2 DEF W!GetApp
    <2> DEFINE todo == w.todo \ {k}
               n == k[2]
               p == page[r]
               new == [w EXCEPT !.at = "compare", !.todo = todo, !.rival = {r}, !.id = n,
                                !.detail = p]
    <2>3. watch' = [watch EXCEPT ![x] = new]
      BY <2>1
    <2>4. todo \subseteq w.todo /\ n \in 1 .. listed /\ n \in Nat /\ p \in Nat
      BY <1>1, <2>1 DEF Fine, WatchSync
    <2>5. w.began[r] <= p
      BY <1>1, <2>2 DEF Fine
    <2> HIDE DEF todo, n, p
    <2>6. /\ new \in WatchSync /\ new.at = "compare" /\ new.began = w.began
          /\ new.todo = todo /\ new.done = w.done /\ new.rival = {r} /\ new.id = n /\ new.detail = p
      BY <1>1, <2>4 DEF WatchSync
    <2> HIDE DEF new
    <2>7. w.began[r] \in Nat
      BY <1>1, <2>2 DEF Fine
    <2>8. Fine(new, page, listed)
      BY <1>1, <2>2, <2>4, <2>5, <2>6, <2>7 DEF Fine
    <2>9. ~mixed => Knows(new, competitor, snap)
      BY <1>1, <2>6 DEF Knows
    <2>10. ~WillAsk(w)
      BY <2>2 DEF WillAsk
    <2> QED
      BY <1>1, <2>2, <2>3, <2>6, <2>8, <2>9, <2>10, WatchGoesOn
  <1>3. CASE W!NoDetail(x, r)
    <2>1. PICK k \in w.todo : watch' = [watch EXCEPT ![x].todo = @ \ {k}]
      BY <1>3 DEF W!NoDetail
    <2> DEFINE todo == w.todo \ {k}
               new == [w EXCEPT !.todo = todo]
    <2>2. /\ w.at = "page" /\ watch' = [watch EXCEPT ![x] = new]
          /\ UNCHANGED <<page, competitor, listed, snap, unranked, word, lost, mixed>>
      BY <1>3, <2>1 DEF W!NoDetail
    <2>3. wishes' \in [Budgets -> Nat] /\ wishes'["troubles"] >= wishes["troubles"]
      BY <1>1, <1>3, WishSpent DEF W!NoDetail, Budgets
    <2>4. todo \subseteq w.todo
      OBVIOUS
    <2> HIDE DEF todo
    <2>5. /\ new \in WatchSync /\ new.at = "page" /\ new.began = w.began
          /\ new.todo = todo /\ new.done = w.done /\ new.rival = w.rival
      BY <1>1, <2>2, <2>4 DEF WatchSync
    <2> HIDE DEF new
    <2>6. Fine(new, page, listed) /\ (~mixed => Knows(new, competitor, snap))
      BY <1>1, <2>2, <2>4, <2>5 DEF Fine, Knows
    <2>7. ~WillAsk(w)
      BY <2>2 DEF WillAsk
    <2> QED
      BY <1>1, <2>2, <2>3, <2>5, <2>6, <2>7, WatchGoesOn
  <1>4. CASE W!Compare(x, r)
    <2> DEFINE at == IF ~W!There(x, r) \/ W!Changed(x, r) THEN "create" ELSE "update"
               new == [w EXCEPT !.at = at]
    <2>1. /\ w.at = "compare" /\ r \in w.rival /\ watch' = [watch EXCEPT ![x] = new]
          /\ UNCHANGED <<page, competitor, listed, snap, unranked, word, lost, mixed, wishes>>
      BY <1>4 DEF W!Compare
    <2>2. at \in {"create", "update"}
      OBVIOUS
    <2>3. competitor[r].id = w.id => (at = "create" <=> Last(snap[r]) # w.detail)
      BY DEF W!There, W!Changed, W!Latest, Last
    <2> HIDE DEF at
    <2>4. /\ new \in WatchSync /\ new.at = at /\ new.began = w.began /\ new.id = w.id
          /\ new.todo = w.todo /\ new.done = w.done /\ new.rival = w.rival /\ new.detail = w.detail
      BY <1>1, <2>2 DEF WatchSync
    <2> HIDE DEF new
    <2>5. Fine(new, page, listed)
      BY <1>1, <2>1, <2>2, <2>4 DEF Fine
    <2>6. ~mixed => Knows(new, competitor, snap)
      <3>1. \A k \in new.rival : k = r
        BY <1>1, <2>1, <2>4 DEF Fine
      <3>2. \A k \in new.rival : competitor[k].id = new.id =>
              /\ new.at = "create" => Last(snap[k]) # new.detail
              /\ new.at = "update" => Last(snap[k]) = new.detail
        BY <2>2, <2>3, <2>4, <3>1
      <3> QED
        BY <1>1, <2>4, <3>2 DEF Knows
    <2>7. ~WillAsk(w)
      BY <2>1 DEF WillAsk
    <2> QED
      BY <1>1, <2>1, <2>4, <2>5, <2>6, <2>7, WatchGoesOn
  <1> QED
    BY <1>2, <1>3, <1>4

\* A sync that has ended knows nothing.
LEMMA IdleKnows ==
    ASSUME NEW pages, NEW n, NEW rivals, NEW snapshots
    PROVE  /\ W!Idle \in WatchSync /\ W!Idle.at = "idle"
           /\ Fine(W!Idle, pages, n) /\ Knows(W!Idle, rivals, snapshots)
  <1>1. W!Idle \in WatchSync /\ W!Idle.at = "idle"
    BY DEF W!Idle, WatchSync
  <1>2. W!Idle.todo = {} /\ W!Idle.done = {} /\ W!Idle.rival = {}
    BY DEF W!Idle
  <1> QED
    BY <1>1, <1>2 DEF Fine, Knows

\* A competitor is refreshed, gone, or the last one; or the sync fails.
LEMMA WatchRefreshes ==
    ASSUME WatchInv, NEW x \in Watcher,
           \/ \E r \in Rival : W!Update(x, r) \/ W!Removed(x, r)
           \/ W!Finish(x) \/ W!Fail(x)
    PROVE  WatchInv'
  <1> DEFINE w == watch[x]
  <1>1. /\ WatchTypes /\ w \in WatchSync /\ Fine(w, page, listed)
        /\ (~mixed => Knows(w, competitor, snap))
        /\ wishes \in [Budgets -> Nat] /\ wishes["troubles"] >= wishes["troubles"]
    BY DEF WatchInv, WatchTypes, Budgets
  <1>2. /\ W!Idle \in WatchSync /\ W!Idle.at = "idle"
        /\ Fine(W!Idle, page, listed) /\ Knows(W!Idle, competitor, snap)
    BY IdleKnows
  <1>3. ASSUME NEW r \in Rival, W!Update(x, r) PROVE WatchInv'
    <2> DEFINE done == w.done \union {<<r, w.id>>}
               new == [w EXCEPT !.at = "page", !.rival = {}, !.done = done]
    <2>1. /\ w.at = "update" /\ r \in w.rival /\ competitor[r].id = w.id
          /\ watch' = [watch EXCEPT ![x] = new]
          /\ UNCHANGED <<page, competitor, listed, snap, unranked, word, lost, mixed, wishes>>
      BY <1>3 DEF W!Update, W!There
    <2>2. w.id \in 1 .. listed /\ w.detail >= w.began[r]
      BY <1>1, <2>1 DEF Fine
    <2>3. done \subseteq Rival \X Nat /\ \A k \in done : k \in w.done \/ k = <<r, w.id>>
      BY <1>1, <2>2 DEF WatchSync
    <2> HIDE DEF done
    <2>4. /\ new \in WatchSync /\ new.at = "page" /\ new.began = w.began
          /\ new.todo = w.todo /\ new.done = done /\ new.rival = {}
      BY <1>1, <2>3 DEF WatchSync
    <2> HIDE DEF new
    <2>5. Fine(new, page, listed)
      BY <1>1, <2>1, <2>2, <2>3, <2>4 DEF Fine
    <2>6. ~mixed => Knows(new, competitor, snap)
      <3> SUFFICES ASSUME ~mixed, NEW k \in Rival, <<k, competitor[k].id>> \in done
                   PROVE  Last(snap[k]) >= w.began[k]
        BY <2>4 DEF Knows
      <3>1. CASE <<k, competitor[k].id>> \in w.done
        BY <1>1, <3>1 DEF Knows
      <3>2. CASE k = r
        <4>1. Last(snap[r]) = w.detail
          BY <1>1, <2>1 DEF Knows
        <4> QED
          BY <2>2, <3>2, <4>1
      <3> QED
        BY <2>3, <3>1, <3>2
    <2>7. ~WillAsk(w)
      BY <2>1 DEF WillAsk
    <2> QED
      BY <1>1, <2>1, <2>4, <2>5, <2>6, <2>7, WatchGoesOn
  <1>4. ASSUME \/ \E r \in Rival : W!Removed(x, r)
               \/ W!Finish(x)
        PROVE  WatchInv'
    <2>1. /\ w.at \in {"page", "create", "update"} /\ watch' = [watch EXCEPT ![x] = W!Idle]
          /\ UNCHANGED <<page, competitor, listed, snap, unranked, word, lost, mixed, wishes>>
      BY <1>4 DEF W!Removed, W!Finish
    <2>2. ~WillAsk(w)
      BY <2>1 DEF WillAsk
    <2> QED
      BY <1>1, <1>2, <2>1, <2>2, WatchGoesOn
  <1>5. CASE W!Fail(x)
    <2>1. /\ watch' = [watch EXCEPT ![x] = W!Idle]
          /\ UNCHANGED <<page, competitor, listed, snap, unranked, word, lost, mixed>>
      BY <1>5 DEF W!Fail
    <2>2. w.at # "idle"
      BY <1>1, <1>5 DEF W!Fail, Fine
    <2>3. /\ wishes' \in [Budgets -> Nat] /\ wishes'["troubles"] >= wishes["troubles"]
          /\ wishes'["troubles"] > 0
      BY <1>1, <1>5, WishSpent DEF W!Fail, Budgets
    <2> QED
      BY <1>1, <1>2, <2>1, <2>2, <2>3, WatchGoesOn
  <1> QED
    BY <1>3, <1>4, <1>5

\* A snapshot is taken of what differs from the latest one.
LEMMA WatchCreates ==
    ASSUME WatchInv, NEW x \in Watcher, NEW r \in Rival, W!Create(x, r)
    PROVE  WatchInv'
  <1> DEFINE w == watch[x]
             old == snap[r]
             taken == <<w.detail>> \o SubSeq(old, 1, IF old = <<>> THEN 0 ELSE 1)
             new == [w EXCEPT !.at = "update"]
  <1>1. /\ WatchTypes /\ w \in WatchSync /\ Fine(w, page, listed)
        /\ (~mixed => Knows(w, competitor, snap))
        /\ watch \in [Watcher -> WatchSync] /\ snap \in [Rival -> Seq(Nat)]
    BY DEF WatchInv, WatchTypes
  <1>2. /\ w.at = "create" /\ r \in w.rival /\ competitor[r].id = w.id
        /\ watch' = [watch EXCEPT ![x] = new] /\ snap' = [snap EXCEPT ![r] = taken]
        /\ UNCHANGED <<page, competitor, listed, unranked, word, lost, mixed, wishes>>
    BY DEF W!Create, W!There
  <1>3. w.detail \in Nat /\ w.detail >= w.began[r] /\ \A k \in w.rival : k = r
    BY <1>1, <1>2 DEF WatchSync, Fine
  <1>4. /\ taken \in Seq(Nat) /\ Len(taken) <= 2 /\ taken # <<>> /\ taken[1] = w.detail
        /\ Len(taken) = 2 => old # <<>> /\ taken[2] = old[1]
    <2> DEFINE kept == SubSeq(old, 1, IF old = <<>> THEN 0 ELSE 1)
    <2>1. old \in Seq(Nat) /\ Len(old) \in Nat /\ (old # <<>> => Len(old) >= 1)
      BY <1>1
    <2>2. kept \in Seq(Nat) /\ Len(kept) = IF old = <<>> THEN 0 ELSE 1
      BY <2>1
    <2>3. old # <<>> => kept[1] = old[1]
      BY <2>1
    <2>4. <<w.detail>> \in Seq(Nat) /\ Len(<<w.detail>>) = 1 /\ <<w.detail>>[1] = w.detail
      BY <1>3
    <2> HIDE DEF kept
    <2>5. /\ taken \in Seq(Nat) /\ Len(taken) = 1 + Len(kept) /\ taken[1] = w.detail
          /\ Len(kept) = 1 => taken[2] = kept[1]
      BY <2>2, <2>4 DEF kept
    <2> QED
      BY <2>2, <2>3, <2>5
  <1> HIDE DEF taken
  <1>5. /\ new \in WatchSync /\ new.at = "update" /\ new.began = w.began /\ new.id = w.id
        /\ new.todo = w.todo /\ new.done = w.done /\ new.rival = w.rival /\ new.detail = w.detail
        /\ WillAsk(new) = WillAsk(w)
    BY <1>1, <1>2 DEF WatchSync, WillAsk
  <1> HIDE DEF new
  <1>6. \A y \in Watcher : watch'[y] = IF y = x THEN new ELSE watch[y]
    BY <1>1, <1>2
  <1>7. \A k \in Rival : snap'[k] = IF k = r THEN taken ELSE snap[k]
    BY <1>1, <1>2
  <1>8. WatchTypes'
    BY <1>1, <1>2, <1>4, <1>5 DEF WatchTypes
  <1>9. ASSUME NEW k \in Rival PROVE Kept(k)'
    <2>1. CASE k # r
      BY <1>2, <1>7, <2>1 DEF WatchInv, Kept
    <2>2. CASE k = r
      <3>1. ASSUME ~mixed, Len(taken) = 2 PROVE taken[1] # taken[2]
        <4>1. Last(old) # w.detail
          BY <1>1, <1>2, <3>1 DEF Knows
        <4> QED
          BY <1>4, <3>1, <4>1 DEF Last
      <3> QED
        BY <1>2, <1>4, <1>7, <2>2, <3>1 DEF WatchInv, Kept
    <2> QED
      BY <2>1, <2>2
  <1>10. Fine(new, page, listed)
    BY <1>1, <1>2, <1>5 DEF Fine
  <1>11. ~mixed => Knows(new, competitor, snap')
    <2> SUFFICES ASSUME ~mixed PROVE Knows(new, competitor, snap')
      OBVIOUS
    <2>1. Last(snap'[r]) = w.detail
      BY <1>4, <1>7 DEF Last
    <2>2. ASSUME NEW k \in Rival, <<k, competitor[k].id>> \in w.done
          PROVE  Last(snap'[k]) >= w.began[k]
      <3>1. CASE k = r
        BY <1>3, <2>1, <3>1
      <3>2. CASE k # r
        BY <1>1, <1>7, <2>2, <3>2 DEF Knows
      <3> QED
        BY <3>1, <3>2
    <2> QED
      BY <1>3, <1>5, <2>1, <2>2 DEF Knows
  <1>12. ASSUME NEW y \in Watcher
         PROVE  Fine(watch'[y], page', listed') /\ (~mixed' => Knows(watch'[y], competitor', snap'))
    <2>1. CASE y = x
      BY <1>2, <1>6, <1>10, <1>11, <2>1
    <2>2. CASE y # x
      <3>1. watch'[y] = watch[y] /\ Fine(watch[y], page, listed)
        BY <1>6, <2>2 DEF WatchInv
      <3>2. ~mixed => watch[y] = W!Idle
        BY <1>2, <2>2, <3>1 DEF WatchInv, Single, Fine
      <3> QED
        BY <1>2, <3>1, <3>2, IdleKnows
    <2> QED
      BY <2>1, <2>2
  <1>13. ~mixed' => Single(watch')
    BY <1>2, <1>5, <1>6 DEF WatchInv, Single
  <1>14. W!RanksAsked'
    <2>1. \A y \in Watcher : WillAsk(watch'[y]) = WillAsk(watch[y])
      BY <1>5, <1>6
    <2> QED
      BY <1>2, <2>1 DEF WatchInv, W!RanksAsked, WillAsk
  <1> QED
    BY <1>8, <1>9, <1>12, <1>13, <1>14 DEF WatchInv

\* Pages move on or a row changes; what is added anew has an identity of its own.
LEMMA RowsChange ==
    ASSUME WatchInv, WatchTypes', \A r \in Rival : Kept(r)', UNCHANGED mixed,
           \A r \in Rival : page[r] <= page'[r], listed <= listed',
           \A r \in Rival : (competitor'[r].id = competitor[r].id /\ snap'[r] = snap[r])
                              \/ competitor'[r].id \notin 1 .. listed,
           \A y \in Watcher : /\ Fine(watch'[y], page, listed)
                              /\ ~mixed => Knows(watch'[y], competitor, snap)
                              /\ watch'[y].at # "idle" => watch[y].at # "idle",
           W!RanksAsked'
    PROVE  WatchInv'
  <1>1. page \in [Rival -> Nat] /\ page' \in [Rival -> Nat] /\ listed \in Nat /\ listed' \in Nat
        /\ competitor' \in [Rival -> WatchRow] /\ watch' \in [Watcher -> WatchSync]
    BY DEF WatchInv, WatchTypes
  <1>2. ASSUME NEW y \in Watcher
        PROVE  Fine(watch'[y], page', listed') /\ (~mixed' => Knows(watch'[y], competitor', snap'))
    <2>1. watch'[y] \in WatchSync /\ Fine(watch'[y], page, listed)
      BY <1>1
    <2>2. /\ Fine(watch'[y], page', listed')
          /\ (Knows(watch'[y], competitor, snap) => Knows(watch'[y], competitor', snap'))
      BY <1>1, <2>1, StillKnown
    <2> QED
      BY <2>2
  <1>3. ~mixed' => Single(watch')
    BY DEF WatchInv, Single
  <1> QED
    BY <1>2, <1>3 DEF WatchInv

\* Discovery adds what it has not found a row of.
LEMMA WatchUpserts ==
    ASSUME WatchInv, NEW x \in Watcher, NEW r \in Rival, W!UpsertFound(x, r)
    PROVE  WatchInv'
  <1> DEFINE w == watch[x]
             found == w.found \ {r}
             new == [w EXCEPT !.at = "count", !.found = found, !.rival = {}]
  <1>1. /\ WatchTypes /\ w \in WatchSync /\ Fine(w, page, listed)
        /\ (~mixed => Knows(w, competitor, snap))
        /\ watch \in [Watcher -> WatchSync] /\ competitor \in [Rival -> WatchRow] /\ listed \in Nat
        /\ page \in [Rival -> Nat]
    BY DEF WatchInv, WatchTypes
  <1>2. /\ w.at = "upsert" /\ watch' = [watch EXCEPT ![x] = new]
        /\ UNCHANGED <<page, snap, word, mixed, wishes>>
    BY DEF W!UpsertFound
  <1>3. found \subseteq Rival
    BY <1>1 DEF WatchSync
  <1> HIDE DEF found
  <1>4. /\ new \in WatchSync /\ new.at = "count" /\ new.began = w.began /\ new.new = w.new
        /\ new.todo = w.todo /\ new.done = w.done /\ new.rival = {}
    BY <1>1, <1>3 DEF WatchSync
  <1> HIDE DEF new
  <1>5. Fine(new, page, listed) /\ (~mixed => Knows(new, competitor, snap))
    BY <1>1, <1>2, <1>4 DEF Fine, Knows
  <1>6. \A y \in Watcher : watch'[y] = IF y = x THEN new ELSE watch[y]
    BY <1>1, <1>2
  <1>7. \A y \in Watcher : /\ Fine(watch'[y], page, listed)
                           /\ ~mixed => Knows(watch'[y], competitor, snap)
                           /\ watch'[y].at # "idle" => watch[y].at # "idle"
    BY <1>2, <1>5, <1>6 DEF WatchInv
  <1>8. \A y \in Watcher : WillAsk(watch'[y]) = WillAsk(watch[y])
    BY <1>2, <1>4, <1>6 DEF WillAsk
  <1>9. WillAsk(new) = w.new
    BY <1>1, <1>4 DEF WillAsk, WatchSync
  <1>10. \A k \in Rival : page[k] <= page'[k]
    BY <1>1, <1>2
  <1>11. CASE competitor[r].id = 0
    <2> DEFINE added == [id |-> listed + 1, tracked |-> TRUE]
    <2>1. /\ competitor' = [competitor EXCEPT ![r] = added] /\ listed' = listed + 1
          /\ unranked' = unranked \union {r}
          /\ lost' = IF w.new THEN lost ELSE lost \union {r}
      BY <1>11 DEF W!UpsertFound, W!Listed
    <2>2. added \in WatchRow /\ added.id = listed + 1 /\ added.tracked = TRUE
      BY <1>1 DEF WatchRow
    <2> HIDE DEF added
    <2>3. \A k \in Rival : competitor'[k] = IF k = r THEN added ELSE competitor[k]
      BY <1>1, <2>1
    <2>4. WatchTypes'
      BY <1>1, <1>2, <1>4, <2>1, <2>2 DEF WatchTypes
    <2>5. ASSUME NEW k \in Rival PROVE Kept(k)'
      <3>1. Kept(k) /\ competitor[k].id \in Nat
        BY <1>1 DEF WatchInv, WatchRow
      <3>2. competitor'[k].id <= listed' /\ (competitor'[k].tracked => competitor'[k].id # 0)
        BY <1>1, <2>1, <2>2, <2>3, <3>1 DEF Kept
      <3>3. word[k] = "untracked" => competitor'[k] = competitor[k]
        BY <1>11, <2>3, <3>1 DEF Kept
      <3> QED
        BY <1>2, <3>1, <3>2, <3>3 DEF Kept
    <2>6. \A k \in Rival : (competitor'[k].id = competitor[k].id /\ snap'[k] = snap[k])
                             \/ competitor'[k].id \notin 1 .. listed
      BY <1>1, <1>2, <2>2, <2>3
    <2>7. W!RanksAsked'
      BY <1>2, <1>6, <1>8, <1>9, <2>1 DEF WatchInv, W!RanksAsked, WillAsk
    <2>8. listed <= listed'
      BY <1>1, <2>1
    <2> QED
      BY <1>2, <1>7, <1>10, <2>4, <2>5, <2>6, <2>7, <2>8, RowsChange
  <1>12. CASE competitor[r].id # 0
    <2>1. competitor' = competitor /\ UNCHANGED <<listed, unranked, lost>>
      BY <1>1, <1>12 DEF W!UpsertFound, W!AsFound
    <2>2. WatchTypes'
      BY <1>1, <1>2, <1>4, <2>1 DEF WatchTypes
    <2>3. \A k \in Rival : Kept(k)'
      BY <1>2, <2>1 DEF WatchInv, Kept
    <2>4. W!RanksAsked'
      BY <1>2, <1>8, <2>1 DEF WatchInv, W!RanksAsked, WillAsk
    <2>5. listed <= listed' /\ \A k \in Rival : competitor'[k].id = competitor[k].id /\ snap'[k] = snap[k]
      BY <1>1, <1>2, <2>1
    <2> QED
      BY <1>2, <1>7, <1>10, <2>2, <2>3, <2>4, <2>5, RowsChange
  <1> QED
    BY <1>11, <1>12

\* The stores release, and the members add, untrack and remove.
LEMMA WatchMembers ==
    ASSUME WatchInv, NEW r \in Rival,
           \/ W!Release(r) \/ W!Add(r) \/ W!Remove(r)
           \/ \E isTracked \in BOOLEAN : W!SetTracked(r, isTracked)
    PROVE  WatchInv'
  <1>1. /\ WatchTypes /\ watch \in [Watcher -> WatchSync] /\ competitor \in [Rival -> WatchRow]
        /\ listed \in Nat /\ page \in [Rival -> Nat] /\ snap \in [Rival -> Seq(Nat)]
        /\ competitor[r] \in WatchRow /\ competitor[r].id \in Nat /\ Kept(r)
        /\ DOMAIN word = Rival
    BY DEF WatchInv, WatchTypes, WatchRow
  <1>2. UNCHANGED <<watch, lost, mixed>> /\ unranked' \subseteq unranked
    BY DEF W!Release, W!Add, W!SetTracked, W!Remove
  <1>3. wishes' \in [Budgets -> Nat] /\ wishes'["troubles"] >= wishes["troubles"]
    BY <1>1, WishSpent DEF W!Release, W!Add, W!SetTracked, W!Remove, Budgets
  <1>4. \A y \in Watcher : /\ Fine(watch'[y], page, listed)
                           /\ ~mixed => Knows(watch'[y], competitor, snap)
                           /\ watch'[y].at # "idle" => watch[y].at # "idle"
    BY <1>2 DEF WatchInv
  <1>5. W!RanksAsked'
    <2>1. wishes["troubles"] > 0 => wishes'["troubles"] > 0
      BY <1>1, <1>3 DEF WatchTypes, Budgets
    <2> QED
      BY <1>2, <2>1 DEF WatchInv, W!RanksAsked
  <1>6. CASE W!Release(r)
    <2>1. page' = [page EXCEPT ![r] = page[r] + 1] /\ UNCHANGED <<competitor, listed, snap, word>>
      BY <1>6 DEF W!Release
    <2>2. page' \in [Rival -> Nat] /\ \A k \in Rival : page[k] <= page'[k]
      BY <1>1, <2>1
    <2>3. WatchTypes'
      BY <1>1, <1>2, <1>3, <2>1, <2>2 DEF WatchTypes
    <2>4. \A k \in Rival : Kept(k)'
      BY <1>2, <2>1 DEF WatchInv, Kept
    <2>5. listed <= listed'
      BY <1>1, <2>1
    <2> QED
      BY <1>2, <1>4, <1>5, <2>1, <2>2, <2>3, <2>4, <2>5, RowsChange
  <1>7. ASSUME NEW new \in WatchRow, competitor' = [competitor EXCEPT ![r] = new],
               page' = page, listed' \in Nat, listed <= listed', new.id <= listed',
               new.tracked => new.id # 0,
               snap' \in [Rival -> Seq(Nat)],
               \/ new.id = competitor[r].id /\ snap' = snap
               \/ new.id \notin 1 .. listed /\ snap'[r] = <<>>,
               \A k \in Rival \ {r} : snap'[k] = snap[k] /\ word'[k] = word[k],
               DOMAIN word' = Rival,
               word'[r] = "untracked" => new.id # 0 /\ ~new.tracked
        PROVE  WatchInv'
    <2>1. \A k \in Rival : competitor'[k] = IF k = r THEN new ELSE competitor[k]
      BY <1>1, <1>7
    <2>2. WatchTypes'
      BY <1>1, <1>2, <1>3, <1>7 DEF WatchTypes
    <2>3. ASSUME NEW k \in Rival PROVE Kept(k)'
      <3>1. CASE k = r
        <4>1. Len(<<>>) = 0 /\ Len(snap'[r]) \in Nat
          BY <1>7
        <4> QED
          BY <1>1, <1>2, <1>7, <2>1, <3>1, <4>1 DEF Kept
      <3>2. CASE k # r
        <4>1. Kept(k) /\ competitor[k].id \in Nat
          BY <1>1 DEF WatchInv, WatchRow
        <4> QED
          BY <1>1, <1>2, <1>7, <2>1, <3>2, <4>1 DEF Kept
      <3> QED
        BY <3>1, <3>2
    <2>4. \A k \in Rival : (competitor'[k].id = competitor[k].id /\ snap'[k] = snap[k])
                             \/ competitor'[k].id \notin 1 .. listed
      BY <1>7, <2>1
    <2>5. \A k \in Rival : page[k] <= page'[k]
      BY <1>1, <1>7
    <2> QED
      BY <1>2, <1>4, <1>5, <1>7, <2>2, <2>3, <2>4, <2>5, RowsChange
  <1>8. CASE W!Add(r)
    <2>1. /\ UNCHANGED <<page, snap>> /\ word' = [word EXCEPT ![r] = "tracked"]
      BY <1>8 DEF W!Add, W!Says
    <2>2. CASE competitor[r].id = 0
      <3> DEFINE new == [id |-> listed + 1, tracked |-> TRUE]
      <3>1. new \in WatchRow /\ new.id = listed + 1 /\ new.tracked = TRUE
        BY <1>1 DEF WatchRow
      <3>2. competitor' = [competitor EXCEPT ![r] = new] /\ listed' = listed + 1
        BY <1>8, <2>2 DEF W!Add, W!Listed
      <3> HIDE DEF new
      <3>3. \A k \in Rival : Kept(k) /\ competitor[k] \in WatchRow
        BY <1>1 DEF WatchInv
      <3>4. \A k \in Rival : competitor'[k] = IF k = r THEN new ELSE competitor[k]
        BY <1>1, <3>2
      <3>5. WatchTypes'
        BY <1>1, <1>2, <1>3, <2>1, <3>1, <3>2 DEF WatchTypes
      <3>6. ASSUME NEW k \in Rival PROVE Kept(k)'
        <4>1. competitor[k].id \in Nat /\ word'[k] = IF k = r THEN "tracked" ELSE word[k]
          BY <1>1, <2>1, <3>3 DEF WatchRow
        <4> QED
          BY <1>1, <1>2, <2>1, <3>1, <3>2, <3>3, <3>4, <4>1 DEF Kept
      <3>7. /\ \A k \in Rival : (competitor'[k].id = competitor[k].id /\ snap'[k] = snap[k])
                                   \/ competitor'[k].id \notin 1 .. listed
            /\ \A k \in Rival : page[k] <= page'[k]
            /\ listed <= listed'
        BY <1>1, <2>1, <3>1, <3>2, <3>4
      <3> QED
        BY <1>2, <1>4, <1>5, <3>5, <3>6, <3>7, RowsChange
    <2>3. CASE competitor[r].id # 0
      <3> DEFINE new == [competitor[r] EXCEPT !.tracked = TRUE]
      <3>1. new \in WatchRow /\ new.id = competitor[r].id /\ new.tracked = TRUE
        BY <1>1 DEF WatchRow
      <3>2. competitor' = [competitor EXCEPT ![r] = new] /\ listed' = listed
        BY <1>8, <2>3 DEF W!Add
      <3> HIDE DEF new
      <3>3. /\ page' = page /\ listed' \in Nat /\ listed <= listed' /\ new.id <= listed'
            /\ (new.tracked => new.id # 0)
            /\ snap' \in [Rival -> Seq(Nat)]
            /\ \/ new.id = competitor[r].id /\ snap' = snap
               \/ new.id \notin 1 .. listed /\ snap'[r] = <<>>
            /\ \A k \in Rival \ {r} : snap'[k] = snap[k] /\ word'[k] = word[k]
            /\ DOMAIN word' = Rival
            /\ (word'[r] = "untracked" => new.id # 0 /\ ~new.tracked)
          BY <1>1, <2>1, <2>3, <3>1, <3>2 DEF Kept
      <3> QED
        BY <1>7, <3>1, <3>2, <3>3
    <2> QED
      BY <2>2, <2>3
  <1>9. ASSUME NEW isTracked \in BOOLEAN, W!SetTracked(r, isTracked) PROVE WatchInv'
    <2> DEFINE new == [competitor[r] EXCEPT !.tracked = isTracked]
               says == IF isTracked THEN "tracked" ELSE "untracked"
    <2>1. new \in WatchRow /\ new.id = competitor[r].id /\ new.tracked = isTracked
      BY <1>1 DEF WatchRow
    <2>2. /\ competitor[r].id # 0 /\ competitor' = [competitor EXCEPT ![r] = new]
          /\ word' = [word EXCEPT ![r] = says]
          /\ UNCHANGED <<page, listed, snap>>
      BY <1>9 DEF W!SetTracked, W!Says
    <2>3. says = "untracked" => ~isTracked
      OBVIOUS
    <2> HIDE DEF new, says
    <2>4. /\ page' = page /\ listed' \in Nat /\ listed <= listed' /\ new.id <= listed'
          /\ (new.tracked => new.id # 0)
          /\ snap' \in [Rival -> Seq(Nat)]
          /\ \/ new.id = competitor[r].id /\ snap' = snap
             \/ new.id \notin 1 .. listed /\ snap'[r] = <<>>
          /\ \A k \in Rival \ {r} : snap'[k] = snap[k] /\ word'[k] = word[k]
          /\ DOMAIN word' = Rival
          /\ (word'[r] = "untracked" => new.id # 0 /\ ~new.tracked)
        BY <1>1, <2>1, <2>2, <2>3 DEF Kept
    <2> QED
      BY <1>7, <2>1, <2>2, <2>4
  <1>10. CASE W!Remove(r)
    <2>1. W!NoRow \in WatchRow /\ W!NoRow.id = 0 /\ W!NoRow.tracked = FALSE
      BY DEF W!NoRow, WatchRow
    <2>2. /\ competitor' = [competitor EXCEPT ![r] = W!NoRow] /\ snap' = [snap EXCEPT ![r] = <<>>]
          /\ word' = [word EXCEPT ![r] = "removed"]
          /\ UNCHANGED <<page, listed>>
      BY <1>10 DEF W!Remove, W!Says
    <2>3. snap' \in [Rival -> Seq(Nat)] /\ snap'[r] = <<>>
      BY <1>1, <2>2
    <2>4. /\ page' = page /\ listed' \in Nat /\ listed <= listed' /\ W!NoRow.id <= listed'
          /\ (W!NoRow.tracked => W!NoRow.id # 0)
          /\ snap' \in [Rival -> Seq(Nat)]
          /\ \/ W!NoRow.id = competitor[r].id /\ snap' = snap
             \/ W!NoRow.id \notin 1 .. listed /\ snap'[r] = <<>>
          /\ \A k \in Rival \ {r} : snap'[k] = snap[k] /\ word'[k] = word[k]
          /\ DOMAIN word' = Rival
          /\ (word'[r] = "untracked" => W!NoRow.id # 0 /\ ~W!NoRow.tracked)
        BY <1>1, <2>1, <2>2, <2>3
    <2> QED
      BY <1>7, <2>1, <2>2, <2>4
  <1> QED
    BY <1>6, <1>8, <1>9, <1>10

\* WatchInv is inductive.
LEMMA WatchNext == ASSUME WatchInv, [W!Next]_W!vars PROVE WatchInv'
  <1>1. CASE UNCHANGED W!vars
    BY <1>1 DEF W!vars, WatchInv, WatchTypes, Kept, Single, W!RanksAsked
  <1>2. CASE W!Next
    BY <1>2, WatchBegin, WatchDiscovers, WatchCompares, WatchRefreshes, WatchCreates, WatchUpserts,
       WatchMembers DEF W!Next
  <1> QED
    BY <1>1, <1>2

\* syncCompetitors and the members: while syncs do not overlap, of the two latest snapshots
\* the later one tells of a change, and what a sync has refreshed is no older than the sync;
\* who was untracked stays so; and ranks are asked for what was discovered.
THEOREM CompetitorsAreWatched == W!Spec => [](W!WatchKept /\ WatchKept)
  <1>1. WatchInv => W!WatchKept
    <2> SUFFICES ASSUME WatchInv PROVE W!WatchKept
      OBVIOUS
    <2>1. W!ChangesReal /\ W!MembersDecide
      BY DEF WatchInv, Kept, W!ChangesReal, W!MembersDecide
    <2>2. W!Refreshed
      BY DEF WatchInv, Knows, Last, W!Refreshed, W!Latest
    <2> QED
      BY <2>1, <2>2 DEF WatchInv, W!WatchKept
  <1>2. W!WatchKept => WatchKept
    BY DEF WatchKept
  <1> QED
    BY <1>2, <1>1, WatchInit, WatchNext, PTL DEF W!Spec

-----------------------------------------------------------------------------
(* The readings of the charts.  Up to the moment when two collectors have  *)
(* an app before them at once, what one has found of its row is so when it *)
(* writes it, and no later reading of the app has come in between.         *)

Scannable ==
    /\ Category \in Seq(M!Categories) /\ Category # <<>>
    /\ IsFiniteSet(M!Categories) /\ NoCategory \notin M!Categories
    /\ IsFiniteSet(ChartApp)
    /\ Depth \in Nat

Work ==
    [at : {"idle", "chart", "app", "row", "snapshot"}, sweep : BOOLEAN, todo : Seq(M!Categories),
     apps : Seq(ChartApp), i : Nat, read : Nat, existing : BOOLEAN, wrote : Nat]

ChartReading == [rank : Nat, of : M!Categories, place : Nat, read : Nat]

ScanTypes ==
    /\ chart \in M!Charts
    /\ moves \in Nat
    /\ DOMAIN market = ChartApp
    /\ reading \in [ChartApp -> Seq(ChartReading)]
    /\ work \in [Collector -> Work]

\* What a collector is at is in order.
Steady(w, now) ==
    /\ w.at = "idle" => w = M!Idle
    /\ w.at # "idle" => w.todo # <<>>
    /\ w.at \in {"row", "snapshot"} => w.i \in 1 .. Len(w.apps)
    /\ w.i >= 1
    /\ w.read <= now

\* What it knows of an app it has before it.
Had(w, a, rows, readings) ==
    a \in M!Remaining(w) =>
        /\ readings[a] # <<>> => readings[a][1].read <= w.read
        /\ w.at = "row" /\ w.apps[w.i] = a /\ w.sweep /\ ~w.existing => rows[a] = NoCategory
        /\ w.at = "snapshot" /\ w.apps[w.i] = a => rows[a] = Head(w.todo)

Charted(w, a, charts) == a \in M!Remaining(w) => Head(w.todo) \in M!On(charts, a)

Separate(a, works) ==
    \A x, y \in Collector : a \in M!Remaining(works[x]) /\ a \in M!Remaining(works[y]) => x = y

Writing(a, works) == \E x \in Collector : works[x].at = "snapshot" /\ works[x].apps[works[x].i] = a

\* What the readings of an app say.
Reads(a) ==
    /\ Len(reading[a]) <= 2
    /\ \A k \in 1 .. Len(reading[a]) :
        /\ reading[a][k].read <= moves
        /\ reading[a][k].rank \in {M!Unranked, reading[a][k].place}
        /\ a \notin relocated => reading[a][k].of \in M!On(chart, a)

Follows(a) ==
    /\ Len(reading[a]) = 2 => reading[a][2].read <= reading[a][1].read
    /\ reading[a] # <<>> /\ ~Writing(a, work) => market[a] = reading[a][1].of \/ a \in half

ScanInv ==
    /\ ScanTypes
    /\ \A x \in Collector :
        /\ Steady(work[x], moves)
        /\ \A a \in ChartApp \ crossed : Had(work[x], a, market, reading)
        /\ \A a \in ChartApp \ relocated : Charted(work[x], a, chart)
    /\ \A a \in ChartApp \ crossed : Separate(a, work) /\ Follows(a)
    /\ \A a \in ChartApp : Reads(a)
    /\ broken \subseteq crossed

\* A collector that is idle, or has not read its chart, has no app before it.
LEMMA NothingBefore ==
    ASSUME moves \in Nat
    PROVE
    /\ M!Idle \in Work /\ Steady(M!Idle, moves) /\ M!Idle.at = "idle"
    /\ \A w : w.apps = <<>> /\ w.i = 1 => M!Remaining(w) = {}
    /\ M!Idle.apps = <<>> /\ M!Idle.i = 1 /\ M!Remaining(M!Idle) = {}
  <1>1. M!Idle \in Work
    BY DEF M!Idle, Work
  <1>2. \A w : w.apps = <<>> /\ w.i = 1 => M!Remaining(w) = {}
    BY DEF M!Remaining
  <1>3. M!Idle.at = "idle" /\ M!Idle.apps = <<>> /\ M!Idle.i = 1 /\ M!Idle.read = 0
    BY DEF M!Idle
  <1> QED
    BY <1>1, <1>2, <1>3 DEF Steady

\* Nothing has been read at first.
LEMMA ScanInit == ASSUME Scannable, M!Init PROVE ScanInv
  <1>1. /\ chart \in M!Charts /\ moves = 0 /\ broken = {}
        /\ market = [a \in ChartApp |-> NoCategory] /\ reading = [a \in ChartApp |-> <<>>]
        /\ work = [x \in Collector |-> M!Idle]
    BY DEF M!Init
  <1>2. /\ M!Idle \in Work /\ Steady(M!Idle, moves) /\ M!Idle.at = "idle"
        /\ M!Remaining(M!Idle) = {}
    BY <1>1, NothingBefore
  <1>3. <<>> \in Seq(ChartReading) /\ Len(<<>>) = 0
    OBVIOUS
  <1>4. ScanTypes
    BY <1>1, <1>2, <1>3 DEF ScanTypes
  <1>5. \A x \in Collector :
          /\ Steady(work[x], moves)
          /\ \A a : Had(work[x], a, market, reading) /\ Charted(work[x], a, chart)
    BY <1>1, <1>2 DEF Had, Charted
  <1>6. \A a \in ChartApp : Separate(a, work) /\ Follows(a) /\ Reads(a)
    BY <1>1, <1>2, <1>3 DEF Separate, Follows, Reads
  <1> QED
    BY <1>1, <1>4, <1>5, <1>6 DEF ScanInv

\* A collector goes on, with fewer apps before it, and writes nothing.
LEMMA ScanQuiet ==
    ASSUME ScanInv, NEW x \in Collector, NEW new \in Work, work' = [work EXCEPT ![x] = new],
           UNCHANGED <<chart, moves, market, reading, relocated, crossed>>,
           broken' \subseteq crossed, half \subseteq half', Steady(new, moves),
           M!Remaining(new) \subseteq M!Remaining(work[x]),
           M!Remaining(new) # {} => new.read = work[x].read /\ Head(new.todo) = Head(work[x].todo),
           new.at = "row" /\ new.sweep /\ ~new.existing => market[new.apps[new.i]] = NoCategory,
           new.at # "snapshot",
           work[x].at = "snapshot" => work[x].apps[work[x].i] \in half'
    PROVE  ScanInv'
  <1>1. ScanTypes
    BY DEF ScanInv
  <1>2. \A y \in Collector : work'[y] = IF y = x THEN new ELSE work[y]
    BY <1>1 DEF ScanTypes
  <1>3. ScanTypes'
    BY <1>1 DEF ScanTypes
  <1>4. \A y \in Collector : Steady(work'[y], moves')
    BY <1>2 DEF ScanInv
  <1>5. ASSUME NEW y \in Collector, NEW a \in ChartApp \ crossed'
        PROVE  Had(work'[y], a, market', reading')
    <2>1. Had(work[y], a, market, reading)
      BY <1>5 DEF ScanInv
    <2> QED
      BY <1>2, <2>1 DEF Had
  <1>6. ASSUME NEW y \in Collector, NEW a \in ChartApp \ relocated'
        PROVE  Charted(work'[y], a, chart')
    <2>1. Charted(work[y], a, chart)
      BY <1>6 DEF ScanInv
    <2> QED
      BY <1>2, <2>1 DEF Charted
  <1>7. ASSUME NEW a \in ChartApp \ crossed' PROVE Separate(a, work') /\ Follows(a)'
    <2>1. Separate(a, work) /\ Follows(a)
      BY <1>7 DEF ScanInv
    <2>2. Separate(a, work')
      BY <1>2, <2>1 DEF Separate
    <2>3. ~Writing(a, work') => ~Writing(a, work) \/ a \in half'
      BY <1>2 DEF Writing
    <2> QED
      BY <2>1, <2>2, <2>3 DEF Follows
  <1>8. \A a \in ChartApp : Reads(a)'
    BY DEF ScanInv, Reads
  <1> QED
    BY <1>3, <1>4, <1>5, <1>6, <1>7, <1>8 DEF ScanInv

\* The store's charts change.
LEMMA ScanMove == ASSUME Scannable, ScanInv, M!Move PROVE ScanInv'
  <1>1. ScanTypes /\ moves \in Nat /\ reading \in [ChartApp -> Seq(ChartReading)]
        /\ work \in [Collector -> Work]
    BY DEF ScanInv, ScanTypes
  <1>2. /\ moves' = moves + 1 /\ chart' \in M!Charts
        /\ relocated' = relocated \union {a \in ChartApp : M!On(chart', a) # M!On(chart, a)}
        /\ UNCHANGED <<market, reading, work, crossed, half, broken>>
    BY DEF M!Move
  <1>3. \A a \in ChartApp \ relocated' : a \notin relocated /\ M!On(chart', a) = M!On(chart, a)
    BY <1>2
  <1>4. ScanTypes'
    BY <1>1, <1>2 DEF ScanTypes
  <1>5. \A y \in Collector : Steady(work'[y], moves')
    BY <1>1, <1>2 DEF ScanInv, Steady, Work
  <1>6. ASSUME NEW y \in Collector, NEW a \in ChartApp \ relocated'
        PROVE  Charted(work'[y], a, chart')
    BY <1>2, <1>3, <1>6 DEF ScanInv, Charted
  <1>7. ASSUME NEW a \in ChartApp PROVE Reads(a)'
    <2>1. Reads(a)
      BY DEF ScanInv
    <2>2. ASSUME NEW k \in 1 .. Len(reading[a])
          PROVE  /\ reading[a][k].read <= moves + 1
                 /\ a \notin relocated' => reading[a][k].of \in M!On(chart', a)
      <3>1. reading[a][k] \in ChartReading
        BY <1>1
      <3>2. reading[a][k].read \in Nat /\ reading[a][k].read <= moves
        BY <2>1, <3>1 DEF ChartReading, Reads
      <3> QED
        BY <1>1, <1>3, <2>1, <3>2 DEF Reads
    <2> QED
      BY <1>2, <2>1, <2>2 DEF Reads
  <1>8. \A a \in ChartApp \ crossed' : Separate(a, work') /\ Follows(a)'
    BY <1>2 DEF ScanInv, Separate, Follows, Writing
  <1>9. \A y \in Collector : \A a \in ChartApp \ crossed' : Had(work'[y], a, market', reading')
    BY <1>2 DEF ScanInv, Had
  <1>10. broken' \subseteq crossed'
    BY <1>2 DEF ScanInv
  <1> QED
    BY <1>4, <1>5, <1>6, <1>7, <1>8, <1>9, <1>10 DEF ScanInv

\* More than one leaves some.
LEMMA LongTail ==
    ASSUME NEW S, NEW s \in Seq(S), s # <<>>, Len(s) # 1
    PROVE  Tail(s) \in Seq(S) /\ Tail(s) # <<>>
  <1>1. Tail(s) \in Seq(S) /\ Len(Tail(s)) = Len(s) - 1 /\ Len(s) \in Nat
    OBVIOUS
  <1>2. Len(Tail(s)) # 0
    BY <1>1
  <1> QED
    BY <1>1, <1>2

\* What a collector goes on with when a category is over.
LEMMA NextCategoryIsFresh ==
    ASSUME ScanInv, NEW x \in Collector, work[x].at # "idle",
           M!NextCategory(x) \/ work' = [work EXCEPT ![x] = M!Idle]
    PROVE  \E new \in Work :
            /\ work' = [work EXCEPT ![x] = new]
            /\ new.at \in {"idle", "chart"} /\ M!Remaining(new) = {} /\ Steady(new, moves)
  <1> DEFINE w == work[x]
             rest == Tail(w.todo)
             next == [M!Idle EXCEPT !.at = "chart", !.sweep = TRUE, !.todo = rest]
  <1>1. w \in Work /\ moves \in Nat /\ w.todo # <<>>
    BY DEF ScanInv, ScanTypes, Steady
  <1>2. /\ M!Idle \in Work /\ Steady(M!Idle, moves) /\ M!Idle.at = "idle"
        /\ M!Idle.apps = <<>> /\ M!Idle.i = 1 /\ M!Remaining(M!Idle) = {}
        /\ \A v : v.apps = <<>> /\ v.i = 1 => M!Remaining(v) = {}
    BY <1>1, NothingBefore
  <1>3. CASE work' = [work EXCEPT ![x] = M!Idle]
    BY <1>2, <1>3
  <1>4. CASE work' = [work EXCEPT ![x] = next] /\ Len(w.todo) # 1
    <2>1. w.todo \in Seq(M!Categories)
      BY <1>1 DEF Work
    <2>2. rest \in Seq(M!Categories) /\ rest # <<>>
      BY <1>1, <1>4, <2>1, LongTail
    <2> HIDE DEF rest
    <2>3. M!Idle.read = 0
      BY DEF M!Idle
    <2>4. /\ next \in Work /\ next.at = "chart" /\ next.apps = <<>> /\ next.i = 1
          /\ next.todo = rest /\ next.read = 0
      BY <1>2, <2>2, <2>3 DEF Work
    <2> HIDE DEF next
    <2>5. M!Remaining(next) = {} /\ Steady(next, moves)
      BY <1>1, <1>2, <2>2, <2>4 DEF Steady
    <2> QED
      BY <1>4, <2>4, <2>5
  <1> QED
    BY <1>3, <1>4 DEF M!NextCategory

\* A category is done, given up, or abandoned.
LEMMA ScanEnds ==
    ASSUME ScanInv, NEW x \in Collector, M!CategoryDone(x) \/ M!Fail(x) \/ M!Collide(x)
    PROVE  ScanInv'
  <1> DEFINE w == work[x]
  <1>1. w \in Work /\ Steady(w, moves)
    BY DEF ScanInv, ScanTypes
  <1>2. w.at # "idle" /\ (M!NextCategory(x) \/ work' = [work EXCEPT ![x] = M!Idle])
    BY <1>1 DEF M!CategoryDone, M!Fail, M!Collide, Steady
  <1>3. PICK new \in Work :
            /\ work' = [work EXCEPT ![x] = new]
            /\ new.at \in {"idle", "chart"} /\ M!Remaining(new) = {} /\ Steady(new, moves)
    BY <1>2, NextCategoryIsFresh
  <1>4. UNCHANGED <<chart, moves, market, reading, relocated, crossed>>
    BY DEF M!CategoryDone, M!Fail, M!Collide
  <1>5. half \subseteq half' /\ (w.at = "snapshot" => w.apps[w.i] \in half')
    BY DEF M!CategoryDone, M!Fail, M!Collide, M!Halfway, M!At
  <1>6. broken' \subseteq crossed
    <2>1. CASE M!Collide(x)
      <3>1. /\ w.at = "row" /\ w.sweep /\ ~w.existing /\ market[w.apps[w.i]] # NoCategory
            /\ broken' = broken \union {w.apps[w.i]}
        BY <2>1 DEF M!Collide, M!Creates, M!At
      <3>2. w.i \in 1 .. Len(w.apps) /\ w.apps \in Seq(ChartApp)
        BY <1>1, <3>1 DEF Steady, Work
      <3>3. w.apps[w.i] \in M!Remaining(w) /\ w.apps[w.i] \in ChartApp
        BY <3>2 DEF M!Remaining
      <3>4. w.apps[w.i] \in crossed
        BY <3>1, <3>3 DEF ScanInv, Had
      <3> QED
        BY <3>1, <3>4 DEF ScanInv
    <2>2. CASE ~M!Collide(x)
      BY <2>2 DEF M!CategoryDone, M!Fail, ScanInv
    <2> QED
      BY <2>1, <2>2
  <1> QED
    BY <1>3, <1>4, <1>5, <1>6, ScanQuiet

\* A sweep or a build begins.
LEMMA ScanBegin == ASSUME Scannable, ScanInv, NEW x \in Collector, M!Begin(x) PROVE ScanInv'
  <1>1. moves \in Nat /\ work[x] = M!Idle
    BY DEF ScanInv, ScanTypes, M!Begin
  <1>2. UNCHANGED <<chart, moves, market, reading, relocated, crossed, half, broken>>
    BY DEF M!Begin
  <1>3. /\ M!Idle \in Work /\ M!Idle.apps = <<>> /\ M!Idle.i = 1 /\ M!Idle.at = "idle"
        /\ \A v : v.apps = <<>> /\ v.i = 1 => M!Remaining(v) = {}
    BY <1>1, NothingBefore
  <1>4. M!Idle.read = 0
    BY DEF M!Idle
  <1>5. ASSUME NEW new \in Work, work' = [work EXCEPT ![x] = new], new.at = "chart",
               new.todo # <<>>, new.apps = <<>>, new.i = 1, new.read = 0
        PROVE  ScanInv'
    <2>1. Steady(new, moves) /\ M!Remaining(new) = {}
      BY <1>1, <1>3, <1>5 DEF Steady
    <2>2. half \subseteq half' /\ broken' \subseteq crossed
      BY <1>2 DEF ScanInv
    <2> QED
      BY <1>1, <1>2, <1>3, <1>5, <2>1, <2>2, ScanQuiet
  <1>6. CASE work' = [work EXCEPT ![x] = [M!Idle EXCEPT !.at = "chart", !.sweep = TRUE, !.todo = Category]]
    <2> DEFINE new == [M!Idle EXCEPT !.at = "chart", !.sweep = TRUE, !.todo = Category]
    <2>1. work' = [work EXCEPT ![x] = new]
      BY <1>6
    <2>2. /\ new \in Work /\ new.at = "chart" /\ new.todo # <<>> /\ new.apps = <<>>
          /\ new.i = 1 /\ new.read = 0
      BY <1>3, <1>4 DEF Work, Scannable
    <2> HIDE DEF new
    <2> QED
      BY <1>5, <2>1, <2>2
  <1>7. ASSUME NEW c \in M!Categories,
               work' = [work EXCEPT ![x] = [M!Idle EXCEPT !.at = "chart", !.todo = <<c>>]]
        PROVE  ScanInv'
    <2> DEFINE one == <<c>>
               new == [M!Idle EXCEPT !.at = "chart", !.todo = one]
    <2>1. work' = [work EXCEPT ![x] = new]
      BY <1>7
    <2>2. one \in Seq(M!Categories) /\ one # <<>>
      OBVIOUS
    <2> HIDE DEF one
    <2>3. /\ new \in Work /\ new.at = "chart" /\ new.todo # <<>> /\ new.apps = <<>>
          /\ new.i = 1 /\ new.read = 0
      BY <1>3, <1>4, <2>2 DEF Work
    <2> HIDE DEF new
    <2> QED
      BY <1>5, <2>1, <2>3
  <1> QED
    BY <1>6, <1>7 DEF M!Begin

\* One app fewer is before it.
LEMMA NextAppHas ==
    ASSUME NEW w \in Work
    PROVE  /\ M!NextApp(w) \in Work /\ M!NextApp(w).at = "app" /\ M!NextApp(w).i = w.i + 1
           /\ M!NextApp(w).todo = w.todo /\ M!NextApp(w).apps = w.apps /\ M!NextApp(w).read = w.read
           /\ M!NextApp(w).wrote = w.wrote
           /\ \A v : v.apps = w.apps /\ v.i = w.i + 1 => M!Remaining(v) \subseteq M!Remaining(w)
  <1> DEFINE i == w.i + 1
  <1>1. i \in Nat
    BY DEF Work
  <1>2. M!NextApp(w) = [w EXCEPT !.at = "app", !.i = i]
    BY DEF M!NextApp
  <1>3. w.i \in Nat /\ i .. Len(w.apps) \subseteq w.i .. Len(w.apps)
    BY DEF Work
  <1>4. i = w.i + 1
    OBVIOUS
  <1> HIDE DEF i
  <1>5. /\ M!NextApp(w) \in Work /\ M!NextApp(w).at = "app" /\ M!NextApp(w).i = i
        /\ M!NextApp(w).todo = w.todo /\ M!NextApp(w).apps = w.apps /\ M!NextApp(w).read = w.read
        /\ M!NextApp(w).wrote = w.wrote
    BY <1>1, <1>2 DEF Work
  <1> QED
    BY <1>3, <1>4, <1>5 DEF M!Remaining

\* A page is read, or cannot be.
LEMMA ScanLooks ==
    ASSUME ScanInv, NEW x \in Collector, M!Look(x) \/ M!Unreadable(x)
    PROVE  ScanInv'
  <1> DEFINE w == work[x]
  <1>1. w \in Work /\ Steady(w, moves) /\ broken \subseteq crossed /\ moves \in Nat
    BY DEF ScanInv, ScanTypes
  <1>2. /\ w.at = "app" /\ w.i <= Len(w.apps)
        /\ UNCHANGED <<chart, moves, market, reading, relocated, crossed, half, broken>>
    BY DEF M!Look, M!Unreadable
  <1>3. CASE M!Look(x)
    <2> DEFINE has == market[w.apps[w.i]] # NoCategory
               new == [w EXCEPT !.at = "row", !.existing = has]
    <2>1. work' = [work EXCEPT ![x] = new]
      BY <1>3 DEF M!Look, M!At
    <2>2. has \in BOOLEAN /\ (~has => market[w.apps[w.i]] = NoCategory)
      OBVIOUS
    <2> HIDE DEF has
    <2>3. /\ new \in Work /\ new.at = "row" /\ new.existing = has /\ new.todo = w.todo
          /\ new.apps = w.apps /\ new.i = w.i /\ new.read = w.read
      BY <1>1, <2>2 DEF Work
    <2> HIDE DEF new
    <2>4. M!Remaining(new) = M!Remaining(w)
      BY <2>3 DEF M!Remaining
    <2>5. w.i \in 1 .. Len(w.apps)
      BY <1>1, <1>2 DEF Steady, Work
    <2>6. Steady(new, moves)
      BY <1>1, <1>2, <2>3, <2>5 DEF Steady
    <2> QED
      BY <1>1, <1>2, <2>1, <2>2, <2>3, <2>4, <2>6, ScanQuiet
  <1>4. CASE M!Unreadable(x)
    <2> DEFINE new == M!NextApp(w)
    <2>1. work' = [work EXCEPT ![x] = new]
      BY <1>4 DEF M!Unreadable
    <2>2. /\ new \in Work /\ new.at = "app" /\ new.i = w.i + 1
          /\ new.todo = w.todo /\ new.apps = w.apps /\ new.read = w.read
          /\ M!Remaining(new) \subseteq M!Remaining(w)
      BY <1>1, NextAppHas
    <2> HIDE DEF new
    <2>3. w.i \in Nat
      BY <1>1 DEF Work
    <2>4. Steady(new, moves)
      BY <1>1, <1>2, <2>2, <2>3 DEF Steady
    <2> QED
      BY <1>1, <1>2, <2>1, <2>2, <2>4, ScanQuiet
  <1> QED
    BY <1>3, <1>4

\* A chart is read: who has an app of it before it as well makes the app crossed.
LEMMA ScanReads == ASSUME Scannable, ScanInv, NEW x \in Collector, M!ReadChart(x) PROVE ScanInv'
  <1> DEFINE w == work[x]
             c == Head(w.todo)
             n == IF Len(chart[c]) < Depth THEN Len(chart[c]) ELSE Depth
             taken == SubSeq(chart[c], 1, n)
             new == [w EXCEPT !.at = "app", !.apps = taken, !.i = 1, !.read = moves]
             others == UNION {M!Remaining(work[y]) : y \in Collector \ {x}}
  <1>1. /\ w \in Work /\ Steady(w, moves) /\ broken \subseteq crossed /\ moves \in Nat
        /\ ScanTypes /\ chart \in M!Charts /\ reading \in [ChartApp -> Seq(ChartReading)]
    BY DEF ScanInv, ScanTypes
  <1>2. /\ w.at = "chart" /\ work' = [work EXCEPT ![x] = new]
        /\ crossed' = crossed \union (M!Remaining(new) \intersect others)
        /\ UNCHANGED <<chart, moves, market, reading, relocated, half, broken>>
    BY DEF M!ReadChart
  <1>3. w.todo # <<>> /\ w.todo \in Seq(M!Categories)
    BY <1>1, <1>2 DEF Steady, Work
  <1>4. c \in M!Categories
    BY <1>3
  <1>5. PICK k \in Nat : chart[c] \in [1 .. k -> ChartApp]
    <2>1. M!Cardinality(ChartApp) \in Nat
      <3>1. M!Cardinality(ChartApp) = Cardinality(ChartApp)
        BY DEF M!Cardinality, Cardinality
      <3> QED
        BY <3>1, FS_CardinalityType DEF Scannable
    <2>2. chart[c] \in M!Rankings
      BY <1>1, <1>4 DEF M!Charts
    <2>3. PICK m \in 0 .. M!Cardinality(ChartApp) : chart[c] \in [1 .. m -> ChartApp]
      <3> DEFINE top == M!Cardinality(ChartApp)
                 of == chart[c]
      <3>1. of \in UNION {{s \in [1 .. m -> ChartApp] : \A i, j \in 1 .. m : s[i] = s[j] => i = j} :
                           m \in 0 .. top}
        BY <2>2 DEF M!Rankings
      <3> HIDE DEF top, of
      <3>2. PICK m \in 0 .. top : of \in {s \in [1 .. m -> ChartApp] :
                                          \A i, j \in 1 .. m : s[i] = s[j] => i = j}
        BY <3>1
      <3>3. of \in [1 .. m -> ChartApp]
        BY <3>2
      <3> QED
        BY <3>3 DEF top, of
    <2>4. m \in Nat
      BY <2>1
    <2> QED
      BY <2>3, <2>4
  <1>6. Len(chart[c]) = k /\ chart[c] \in Seq(ChartApp)
    BY <1>5
  <1>7. n \in Nat /\ n <= k
    BY <1>6 DEF Scannable
  <1>8. /\ taken \in Seq(ChartApp) /\ Len(taken) = n
        /\ \A j \in 1 .. n : taken[j] = chart[c][j]
    BY <1>6, <1>7
  <1>9. \A j \in 1 .. Len(taken) : c \in M!On(chart, taken[j])
    BY <1>4, <1>5, <1>6, <1>7, <1>8 DEF M!On
  <1> HIDE DEF taken
  <1>10. /\ new \in Work /\ new.at = "app" /\ new.apps = taken /\ new.i = 1 /\ new.read = moves
         /\ new.todo = w.todo
    BY <1>1, <1>8 DEF Work
  <1> HIDE DEF new
  <1>11. \A a \in M!Remaining(new) : c \in M!On(chart, a)
    BY <1>9, <1>10 DEF M!Remaining
  <1>12. \A y \in Collector : work'[y] = IF y = x THEN new ELSE work[y]
    BY <1>1, <1>2 DEF ScanTypes
  <1>13. ScanTypes'
    BY <1>1, <1>2, <1>10 DEF ScanTypes
  <1>14. Steady(new, moves)
    BY <1>1, <1>2, <1>3, <1>10 DEF Steady
  <1>15. ASSUME NEW a \in ChartApp \ crossed', NEW y \in Collector
         PROVE  Had(work'[y], a, market', reading')
    <2>1. CASE y # x
      BY <1>2, <1>12, <1>15, <2>1 DEF ScanInv, Had
    <2>2. CASE y = x
      <3>1. ASSUME reading[a] # <<>> PROVE reading[a][1].read <= moves
        <4>1. reading[a] \in Seq(ChartReading) /\ Len(reading[a]) \in Nat /\ Len(reading[a]) # 0
          BY <1>1, <3>1
        <4>2. 1 \in 1 .. Len(reading[a])
          BY <4>1
        <4> QED
          BY <4>2 DEF ScanInv, Reads
      <3> QED
        BY <1>2, <1>10, <1>12, <2>2, <3>1 DEF Had
    <2> QED
      BY <2>1, <2>2
  <1>16. ASSUME NEW a \in ChartApp \ relocated', NEW y \in Collector
         PROVE  Charted(work'[y], a, chart')
    BY <1>2, <1>10, <1>11, <1>12, <1>16 DEF ScanInv, Charted
  <1>17. ASSUME NEW a \in ChartApp \ crossed' PROVE Separate(a, work') /\ Follows(a)'
    <2>1. Separate(a, work) /\ Follows(a)
      BY <1>2, <1>17 DEF ScanInv
    <2>2. a \in M!Remaining(new) => \A y \in Collector \ {x} : a \notin M!Remaining(work[y])
      BY <1>2, <1>17
    <2>3. Separate(a, work')
      BY <1>12, <2>1, <2>2 DEF Separate
    <2>4. Writing(a, work') <=> Writing(a, work)
      BY <1>2, <1>10, <1>12 DEF Writing
    <2> QED
      BY <1>2, <2>1, <2>3, <2>4 DEF Follows
  <1>18. \A a \in ChartApp : Reads(a)'
    BY <1>2 DEF ScanInv, Reads
  <1>19. \A y \in Collector : Steady(work'[y], moves')
    BY <1>2, <1>12, <1>14 DEF ScanInv
  <1> QED
    BY <1>1, <1>2, <1>13, <1>15, <1>16, <1>17, <1>18, <1>19 DEF ScanInv

\* A row is written: nobody else has looked for it since, if the app is before no one else.
LEMMA ScanWritesRow == ASSUME Scannable, ScanInv, NEW x \in Collector, M!WriteRow(x) PROVE ScanInv'
  <1> DEFINE w == work[x]
             b == w.apps[w.i]
             new == [w EXCEPT !.at = "snapshot"]
  <1>1. /\ w \in Work /\ Steady(w, moves) /\ ScanTypes /\ DOMAIN market = ChartApp
        /\ broken \subseteq crossed
    BY DEF ScanInv, ScanTypes
  <1>2. /\ w.at = "row" /\ work' = [work EXCEPT ![x] = new]
        /\ market' = [market EXCEPT ![b] = Head(w.todo)]
        /\ UNCHANGED <<chart, moves, reading, relocated, crossed, half, broken>>
    BY DEF M!WriteRow, M!At
  <1>3. w.i \in 1 .. Len(w.apps) /\ w.apps \in Seq(ChartApp)
    BY <1>1, <1>2 DEF Steady, Work
  <1>4. b \in M!Remaining(w) /\ b \in ChartApp
    BY <1>3 DEF M!Remaining
  <1>5. /\ new \in Work /\ new.at = "snapshot" /\ new.apps = w.apps /\ new.i = w.i
        /\ new.todo = w.todo /\ new.read = w.read
    BY <1>1 DEF Work
  <1> HIDE DEF new
  <1>6. M!Remaining(new) = M!Remaining(w)
    BY <1>5 DEF M!Remaining
  <1>7. \A y \in Collector : work'[y] = IF y = x THEN new ELSE work[y]
    BY <1>1, <1>2 DEF ScanTypes
  <1>8. \A a \in ChartApp : market'[a] = IF a = b THEN Head(w.todo) ELSE market[a]
    BY <1>1, <1>2
  <1>9. ScanTypes'
    BY <1>1, <1>2, <1>5 DEF ScanTypes
  <1>10. \A y \in Collector : Steady(work'[y], moves')
    <2>1. Steady(new, moves)
      BY <1>1, <1>2, <1>3, <1>5 DEF Steady
    <2> QED
      BY <1>2, <1>7, <2>1 DEF ScanInv
  <1>11. ASSUME NEW y \in Collector, NEW a \in ChartApp \ crossed'
         PROVE  Had(work'[y], a, market', reading')
    <2>1. Had(work[y], a, market, reading) /\ Separate(a, work)
      BY <1>2, <1>11 DEF ScanInv
    <2>2. CASE y = x
      BY <1>2, <1>5, <1>6, <1>7, <1>8, <2>1, <2>2 DEF Had
    <2>3. CASE y # x /\ a = b
      BY <1>4, <1>7, <2>1, <2>3 DEF Had, Separate
    <2>4. CASE y # x /\ a # b
      BY <1>2, <1>7, <1>8, <2>1, <2>4 DEF Had
    <2> QED
      BY <2>2, <2>3, <2>4
  <1>12. ASSUME NEW y \in Collector, NEW a \in ChartApp \ relocated'
         PROVE  Charted(work'[y], a, chart')
    BY <1>2, <1>5, <1>6, <1>7, <1>12 DEF ScanInv, Charted
  <1>13. ASSUME NEW a \in ChartApp \ crossed' PROVE Separate(a, work') /\ Follows(a)'
    <2>1. Separate(a, work) /\ Follows(a)
      BY <1>2, <1>13 DEF ScanInv
    <2>2. Separate(a, work')
      BY <1>6, <1>7, <2>1 DEF Separate
    <2>3. CASE a = b
      <3>1. Writing(a, work')
        BY <1>5, <1>7, <2>3 DEF Writing
      <3> QED
        BY <1>2, <2>1, <2>2, <3>1 DEF Follows
    <2>4. CASE a # b
      <3>1. Writing(a, work') <=> Writing(a, work)
        BY <1>2, <1>5, <1>7, <2>4 DEF Writing
      <3> QED
        BY <1>2, <1>8, <2>1, <2>2, <2>4, <3>1 DEF Follows
    <2> QED
      BY <2>3, <2>4
  <1>14. \A a \in ChartApp : Reads(a)'
    BY <1>2 DEF ScanInv, Reads
  <1> QED
    BY <1>1, <1>2, <1>9, <1>10, <1>11, <1>12, <1>13, <1>14 DEF ScanInv

\* A snapshot is taken: it goes before the latest one, and is of a chart read no earlier.
LEMMA ScanSnapshot == ASSUME Scannable, ScanInv, NEW x \in Collector, M!Snapshot(x) PROVE ScanInv'
  <1> DEFINE w == work[x]
             b == w.apps[w.i]
             rank == M!Rank(x)
             shot == [rank |-> rank, of |-> Head(w.todo), place |-> w.i, read |-> w.read]
             old == reading[b]
             kept == SubSeq(old, 1, IF old = <<>> THEN 0 ELSE 1)
             taken == <<shot>> \o kept
             after == M!NextApp(w)
             count == w.wrote + 1
             new == [after EXCEPT !.wrote = count]
  <1>1. /\ w \in Work /\ Steady(w, moves) /\ ScanTypes /\ reading \in [ChartApp -> Seq(ChartReading)]
        /\ moves \in Nat /\ broken \subseteq crossed
    BY DEF ScanInv, ScanTypes
  <1>2. /\ w.at = "snapshot" /\ work' = [work EXCEPT ![x] = new]
        /\ reading' = [reading EXCEPT ![b] = taken]
        /\ half' = half \ {b}
        /\ UNCHANGED <<chart, moves, market, relocated, crossed, broken>>
    <2>1. /\ w.at = "snapshot" /\ half' = half \ {b}
          /\ UNCHANGED <<chart, moves, market, relocated, crossed, broken>>
      BY DEF M!Snapshot, M!At
    <2>2. work' = [work EXCEPT ![x] = new]
      BY DEF M!Snapshot
    <2>3. reading' = [reading EXCEPT ![b] = taken]
      BY DEF M!Snapshot, M!At
    <2> QED
      BY <2>1, <2>2, <2>3
  <1>3. /\ w.i \in 1 .. Len(w.apps) /\ w.apps \in Seq(ChartApp) /\ w.todo # <<>>
        /\ w.todo \in Seq(M!Categories) /\ w.read \in Nat /\ w.read <= moves /\ w.i \in Nat
    BY <1>1, <1>2 DEF Steady, Work
  <1>4. b \in M!Remaining(w) /\ b \in ChartApp /\ Head(w.todo) \in M!Categories
    BY <1>3 DEF M!Remaining
  <1>5. rank \in {M!Unranked, w.i} /\ rank \in Nat
    BY <1>3 DEF M!Rank, M!Unranked
  <1> HIDE DEF rank
  <1>6. /\ shot \in ChartReading /\ shot.rank = rank /\ shot.of = Head(w.todo) /\ shot.place = w.i
        /\ shot.read = w.read
    BY <1>3, <1>4, <1>5 DEF ChartReading
  <1> HIDE DEF shot
  <1>7. old \in Seq(ChartReading) /\ Len(old) \in Nat /\ (old # <<>> => Len(old) >= 1)
    BY <1>1, <1>4
  <1>8. /\ taken \in Seq(ChartReading) /\ Len(taken) <= 2 /\ Len(taken) >= 1 /\ taken[1] = shot
        /\ Len(taken) = 2 => old # <<>> /\ taken[2] = old[1]
    <2>1. kept \in Seq(ChartReading) /\ Len(kept) = IF old = <<>> THEN 0 ELSE 1
      BY <1>7
    <2>2. old # <<>> => kept[1] = old[1]
      BY <1>7
    <2>3. <<shot>> \in Seq(ChartReading) /\ Len(<<shot>>) = 1 /\ <<shot>>[1] = shot
      BY <1>6
    <2> HIDE DEF kept
    <2>4. /\ taken \in Seq(ChartReading) /\ Len(taken) = 1 + Len(kept) /\ taken[1] = shot
          /\ Len(kept) = 1 => taken[2] = kept[1]
      BY <2>1, <2>3 DEF kept
    <2> QED
      BY <2>1, <2>2, <2>4
  <1> HIDE DEF taken
  <1>9. /\ after \in Work /\ after.at = "app" /\ after.i = w.i + 1
        /\ after.todo = w.todo /\ after.apps = w.apps /\ after.read = w.read
        /\ \A v : v.apps = w.apps /\ v.i = w.i + 1 => M!Remaining(v) \subseteq M!Remaining(w)
    BY <1>1, NextAppHas
  <1> HIDE DEF after
  <1>10. count \in Nat
    BY <1>1 DEF Work
  <1> HIDE DEF count
  <1>11. /\ new \in Work /\ new.at = "app" /\ new.i = w.i + 1
         /\ new.todo = w.todo /\ new.apps = w.apps /\ new.read = w.read
    BY <1>9, <1>10 DEF Work
  <1> HIDE DEF new
  <1>12. M!Remaining(new) \subseteq M!Remaining(w)
    BY <1>9, <1>11
  <1>13. \A y \in Collector : work'[y] = IF y = x THEN new ELSE work[y]
    BY <1>1, <1>2 DEF ScanTypes
  <1>14. \A a \in ChartApp : reading'[a] = IF a = b THEN taken ELSE reading[a]
    BY <1>1, <1>2
  <1>15. ScanTypes'
    BY <1>1, <1>2, <1>8, <1>11 DEF ScanTypes
  <1>16. \A y \in Collector : Steady(work'[y], moves')
    <2>1. Steady(new, moves)
      BY <1>1, <1>2, <1>3, <1>11 DEF Steady
    <2> QED
      BY <1>2, <1>13, <2>1 DEF ScanInv
  <1>17. ASSUME NEW y \in Collector, NEW a \in ChartApp \ crossed'
         PROVE  Had(work'[y], a, market', reading')
    <2>1. Had(work[y], a, market, reading) /\ Separate(a, work)
      BY <1>2, <1>17 DEF ScanInv
    <2>2. CASE y = x
      <3>1. CASE a = b
        <4>1. taken[1].read <= w.read
          BY <1>3, <1>6, <1>8
        <4> QED
          BY <1>2, <1>11, <1>13, <1>14, <2>2, <3>1, <4>1 DEF Had
      <3>2. CASE a # b
        BY <1>2, <1>11, <1>12, <1>13, <1>14, <2>1, <2>2, <3>2 DEF Had
      <3> QED
        BY <3>1, <3>2
    <2>3. CASE y # x /\ a = b
      BY <1>4, <1>13, <2>1, <2>3 DEF Had, Separate
    <2>4. CASE y # x /\ a # b
      BY <1>2, <1>13, <1>14, <2>1, <2>4 DEF Had
    <2> QED
      BY <2>2, <2>3, <2>4
  <1>18. ASSUME NEW y \in Collector, NEW a \in ChartApp \ relocated'
         PROVE  Charted(work'[y], a, chart')
    BY <1>2, <1>11, <1>12, <1>13, <1>18 DEF ScanInv, Charted
  <1>19. ASSUME NEW a \in ChartApp \ crossed' PROVE Separate(a, work') /\ Follows(a)'
    <2>1. Separate(a, work) /\ Follows(a) /\ Had(w, a, market, reading)
      BY <1>2, <1>19 DEF ScanInv
    <2>2. Separate(a, work')
      BY <1>12, <1>13, <2>1 DEF Separate
    <2>3. CASE a = b
      <3>1. market[b] = Head(w.todo) /\ (old # <<>> => old[1].read <= w.read)
        BY <1>2, <1>4, <2>1, <2>3 DEF Had
      <3>2. Len(taken) = 2 => taken[2].read <= taken[1].read
        BY <1>6, <1>8, <3>1
      <3> QED
        BY <1>2, <1>6, <1>8, <1>14, <2>2, <2>3, <3>1, <3>2 DEF Follows
    <2>4. CASE a # b
      <3>1. Writing(a, work') <=> Writing(a, work)
        BY <1>2, <1>11, <1>13, <2>4 DEF Writing
      <3> QED
        BY <1>2, <1>14, <2>1, <2>2, <2>4, <3>1 DEF Follows
    <2> QED
      BY <2>3, <2>4
  <1>20. ASSUME NEW a \in ChartApp PROVE Reads(a)'
    <2>1. Reads(a)
      BY DEF ScanInv
    <2>2. CASE a # b
      BY <1>2, <1>14, <2>1, <2>2 DEF Reads
    <2>3. CASE a = b
      <3>1. ASSUME NEW k \in 1 .. Len(taken)
            PROVE  /\ taken[k].read <= moves /\ taken[k].rank \in {M!Unranked, taken[k].place}
                   /\ b \notin relocated => taken[k].of \in M!On(chart, b)
        <4>1. CASE k = 1
          <5>1. b \notin relocated => Head(w.todo) \in M!On(chart, b)
            BY <1>4 DEF ScanInv, Charted
          <5> QED
            BY <1>3, <1>5, <1>6, <1>8, <4>1, <5>1
        <4>2. CASE k # 1
          <5>1. Len(taken) = 2 /\ k = 2
            <6>1. Len(taken) \in Nat /\ Len(taken) <= 2
              BY <1>8
            <6>2. \A n \in Nat : n <= 2 => \A j \in 1 .. n : j # 1 => n = 2 /\ j = 2
              OBVIOUS
            <6> QED
              BY <4>2, <6>1, <6>2
          <5>2. 1 \in 1 .. Len(old) /\ taken[k] = old[1]
            BY <1>7, <1>8, <5>1
          <5> QED
            BY <2>1, <2>3, <5>2 DEF Reads
        <4> QED
          BY <4>1, <4>2
      <3>2. Len(taken) <= 2
        BY <1>8
      <3> QED
        BY <1>2, <1>14, <2>3, <3>1, <3>2 DEF Reads
    <2> QED
      BY <2>2, <2>3
  <1> QED
    BY <1>1, <1>2, <1>15, <1>16, <1>17, <1>18, <1>19, <1>20 DEF ScanInv

\* ScanInv is inductive.
LEMMA ScanNext == ASSUME Scannable, ScanInv, [M!Next]_M!vars PROVE ScanInv'
  <1>1. CASE UNCHANGED M!vars
    BY <1>1 DEF M!vars, ScanInv, ScanTypes, Separate, Follows, Writing, Reads
  <1>2. CASE M!Next
    BY <1>2, ScanMove, ScanBegin, ScanReads, ScanLooks, ScanWritesRow, ScanSnapshot, ScanEnds
       DEF M!Next
  <1> QED
    BY <1>1, <1>2

\* Of what the store lists in one category only, two charts are one.
LEMMA OneChart ==
    ASSUME Scannable, chart \in M!Charts, NEW a \in ChartApp,
           NEW c \in M!On(chart, a), NEW d \in M!On(chart, a)
    PROVE  c = d
  <1> DEFINE on == M!On(chart, a)
  <1>1. on \subseteq M!Categories
    BY DEF M!On
  <1>2. IsFiniteSet(on)
    BY <1>1, FS_Subset DEF Scannable
  <1>3. Cardinality(on) <= 1
    <2>1. M!Cardinality(on) = Cardinality(on)
      BY DEF M!Cardinality, Cardinality
    <2>2. M!Cardinality(on) <= 1
      BY DEF M!Charts
    <2> QED
      BY <2>1, <2>2
  <1>4. c \in on /\ d \in on
    OBVIOUS
  <1> HIDE DEF on
  <1>5. SUFFICES ASSUME c # d PROVE FALSE
    OBVIOUS
  <1>6. /\ IsFiniteSet(on \ {c}) /\ Cardinality(on \ {c}) = Cardinality(on) - 1
        /\ Cardinality(on) \in Nat
    BY <1>2, <1>4, FS_RemoveElement, FS_CardinalityType
  <1>7. Cardinality(on \ {c}) = 0
    BY <1>3, <1>6, FS_CardinalityType
  <1>8. on \ {c} = {}
    BY <1>6, <1>7, FS_EmptySet
  <1> QED
    BY <1>4, <1>5, <1>8

\* Trends: the rank shown was the app's place on the chart of the category it is shown with,
\* and its climb is what it rose on that chart, unless two collectors had the app before them
\* at once, the store moved it, or a row was written without its snapshot (scanAllCategories,
\* collectNicheApps and trends.rising).
THEOREM ChartsAreTrue == ASSUME Scannable PROVE M!Spec => [](M!ClimbTrue /\ ClimbTrue)
  <1>1. ASSUME ScanInv PROVE M!ClimbTrue
    <2>1. chart \in M!Charts /\ reading \in [ChartApp -> Seq(ChartReading)] /\ broken \subseteq crossed
      BY <1>1 DEF ScanInv, ScanTypes
    <2>2. ASSUME NEW a \in ChartApp \ crossed
          PROVE  Reads(a) /\ Follows(a) /\ reading[a] \in Seq(ChartReading) /\ Len(reading[a]) \in Nat
      BY <1>1, <2>1, <2>2 DEF ScanInv
    <2>3. ASSUME NEW a \in ChartApp \ crossed, M!Shown(a), ~M!BeingWritten(a)
          PROVE  M!Latest(a).rank = M!Latest(a).place /\ (market[a] = M!Latest(a).of \/ a \in half)
      <3>1. Reads(a) /\ Follows(a) /\ reading[a] \in Seq(ChartReading) /\ Len(reading[a]) \in Nat
        BY <2>2
      <3>2. reading[a] # <<>> /\ reading[a][1].rank # M!Unranked
        BY <2>3 DEF M!Shown, M!Latest
      <3>3. 1 \in 1 .. Len(reading[a])
        BY <3>1, <3>2
      <3>4. ~Writing(a, work)
        BY <2>3 DEF M!BeingWritten, M!At, Writing
      <3> QED
        BY <3>1, <3>2, <3>3, <3>4 DEF Reads, Follows, M!Latest
    <2>4. ASSUME NEW a \in ChartApp \ crossed, M!Measured(a)
          PROVE  LET from == reading[a][2]  to == M!Latest(a) IN
                  /\ from.read <= to.read
                  /\ from.of = to.of => M!Climb(a) = from.place - to.place
                  /\ from.of = to.of \/ a \in relocated
      <3>1. Reads(a) /\ Follows(a) /\ reading[a] \in Seq(ChartReading) /\ Len(reading[a]) = 2
        BY <2>2, <2>4 DEF M!Measured
      <3>2. /\ reading[a][1].rank = reading[a][1].place
            /\ reading[a][2].rank = reading[a][2].place
        BY <2>4, <3>1 DEF Reads, M!Measured
      <3>3. a \notin relocated =>
              reading[a][1].of \in M!On(chart, a) /\ reading[a][2].of \in M!On(chart, a)
        BY <3>1 DEF Reads
      <3>4. a \notin relocated => reading[a][2].of = reading[a][1].of
        BY <2>1, <3>3, OneChart
      <3> QED
        BY <3>1, <3>2, <3>4 DEF Follows, M!Climb, M!Latest
    <2> QED
      BY <2>1, <2>3, <2>4 DEF M!ClimbTrue
  <1>2. M!ClimbTrue => ClimbTrue
    BY DEF ClimbTrue
  <1> QED
    BY <1>2, <1>1, ScanInit, ScanNext, PTL DEF M!Spec

-----------------------------------------------------------------------------
(* Ranks: a row's prevRank is read before the row is written, so that what *)
(* a run holds is still the rank of the row before, or a row was written   *)
(* when its day was over; and the newest row of a competitor is of the day *)
(* of the app's own, or some run has it ahead.                             *)

Places ==
    /\ MaxDays \in Nat \ {0} /\ Position \subseteq Nat \ {0}
    /\ Keyword \intersect (Rival \union Chart) = {} /\ Rival \intersect Chart = {}

RankDays == 1 .. MaxDays
Row(s, d) == ranks[s][d] # P!NoRow

\* A rank held as that of the row before day d.
Right(s, d, p) == (\A e \in 1 .. d - 1 : <<s, e>> \notin late) => p = P!Previous(s, d)

Scan(w) ==
    w = [at |-> w.at, today |-> w.today, todo |-> w.todo, rivals |-> w.rivals, left |-> w.left,
         prev |-> w.prev]

RankTypes ==
    /\ ranking \in {"aso.ranks", "aso.charts"}
    /\ ofDay \in RankDays
    /\ followed \in [Keyword \union Rival -> {"none", "tracked", "untracked", "gone"}]
    /\ ranks = [s \in P!Series |-> [d \in RankDays |-> ranks[s][d]]]
    /\ scan = [x \in Scanner |-> scan[x]] /\ \A x \in Scanner : Scan(scan[x])
    /\ unread \in [Keyword -> SUBSET Rival]

\* What a run holds of the keyword or chart it is at.
HeldOwn(w, k) == w.left = {k} /\ (P!Gone(k) \/ Right(<<k>>, w.today, w.prev[k]))
HeldRivals(w, k) ==
    /\ k \in w.left /\ w.left \subseteq {k} \union w.rivals
    /\ ~P!Gone(k) =>
         /\ Row(<<k>>, w.today)
         /\ \A r \in w.left \ {k} : P!Gone(r) \/ Right(<<k, r>>, w.today, w.prev[r])

Held(w) ==
    /\ w.at \in {"idle", "search", "own", "rivals", "chart", "position"}
    /\ w.at # "idle" => w.today \in 1 .. ofDay
    /\ w.at \in {"search", "own", "rivals"} => w.rivals \subseteq Rival /\ w.todo \subseteq Keyword
    /\ w.at \in {"chart", "position"} => w.todo \subseteq Chart
    /\ w.at = "own" => \E k \in Keyword : HeldOwn(w, k)
    /\ w.at = "rivals" => \E k \in Keyword : HeldRivals(w, k)
    /\ w.at = "position" => \E c \in Chart : w.left = {c} /\ Right(<<c>>, w.today, w.prev[c])

Leading(k, d) == \A e \in RankDays : Row(<<k>>, e) => e <= d

\* Some run has the row of a competitor ahead.
Ahead(w, k, r, d) == w.at = "rivals" /\ k \in w.left /\ r \in w.left /\ w.today = d

Beside ==
    /\ \A k \in Keyword, r \in Rival, d \in RankDays :
         Row(<<k, r>>, d) => Row(<<k>>, d) /\ ~P!Gone(r)
    /\ \A k \in Keyword, d \in RankDays : Row(<<k>>, d) => ~P!Gone(k)
    /\ \A k \in Keyword, d \in RankDays : \A r \in Rival \ unread[k] :
         Row(<<k>>, d) /\ Leading(k, d) /\ ~P!Gone(r) =>
             Row(<<k, r>>, d) \/ \E x \in Scanner : Ahead(scan[x], k, r, d)

RankInv ==
    /\ RankTypes
    /\ \A s \in P!Series, d \in RankDays : Row(s, d) => d <= ofDay /\ Right(s, d, ranks[s][d].prev)
    /\ \A x \in Scanner : Held(scan[x])
    /\ Beside

\* Of some days one is the last.
LEMMA LastOf ==
    ASSUME MaxDays \in Nat, NEW S, S \subseteq 1 .. MaxDays, S # {}
    PROVE  P!Max(S) \in S /\ \A n \in S : n <= P!Max(S)
  <1> DEFINE back == {MaxDays - n : n \in S}
  <1>1. back \subseteq Nat /\ back # {}
    <2>1. \A n \in 1 .. MaxDays : MaxDays - n \in Nat
      OBVIOUS
    <2> QED
      BY <2>1
  <1>2. PICK m \in back : \A n \in back : m <= n
    BY <1>1, LeastOf
  <1>3. PICK last \in S : m = MaxDays - last
    BY <1>2
  <1>4. \A n \in S : last >= n
    <2> SUFFICES ASSUME NEW n \in S PROVE last >= n
      OBVIOUS
    <2>1. MaxDays - n \in back /\ n \in 1 .. MaxDays /\ last \in 1 .. MaxDays
      OBVIOUS
    <2>2. MaxDays - last <= MaxDays - n
      BY <1>2, <1>3, <2>1
    <2> QED
      BY <2>1, <2>2
  <1>5. P!Max(S) \in S /\ \A n \in S : P!Max(S) >= n
    BY <1>4 DEF P!Max
  <1> QED
    BY <1>5

\* The series and their keys.
LEMMA SeriesOf ==
    ASSUME Places
    PROVE  /\ \A k \in Keyword : <<k>> \in P!Series
           /\ \A k \in Keyword, r \in Rival : <<k, r>> \in P!Series
           /\ \A c \in Chart : <<c>> \in P!Series
           /\ \A k, c, r : <<c>> # <<k, r>>
           /\ \A k \in Keyword, c \in Chart : <<k>> # <<c>>
           /\ \A k, c : <<k>> = <<c>> => k = c
           /\ \A k, c, r, q : <<k, r>> = <<c, q>> => k = c /\ r = q
  BY DEF P!Series, P!Own, Places

\* What has not changed below a day leaves the row before it as it is.
LEMMA PreviousSame ==
    ASSUME Places, NEW s \in P!Series, NEW d \in RankDays, \A e \in 1 .. d - 1 : ranks'[s][e] = ranks[s][e]
    PROVE  P!Previous(s, d)' = P!Previous(s, d)
  <1> DEFINE days == {e \in RankDays : ranks[s][e] # P!NoRow} \intersect (1 .. d - 1)
  <1>1. P!Captured(s) \intersect P!Before(d) = days
    BY DEF P!Captured, P!Before, RankDays
  <1>2. P!Captured(s)' \intersect (1 .. d - 1) = days
    BY DEF P!Captured, RankDays, Places, P!NoRow
  <1>3. P!Previous(s, d) = IF days = {} THEN P!Null ELSE ranks[s][P!Max(days)].rank
    BY <1>1 DEF P!Previous
  <1>4. P!Previous(s, d)' = IF days = {} THEN P!Null ELSE ranks'[s][P!Max(days)].rank
    BY <1>2 DEF P!Previous, P!Before, P!Null
  <1>5. days # {} => P!Max(days) \in 1 .. d - 1
    <2>1. days \subseteq 1 .. MaxDays /\ MaxDays \in Nat
      BY DEF RankDays, Places
    <2>2. days # {} => P!Max(days) \in days
      BY <2>1, LastOf
    <2> QED
      BY <2>2
  <1> HIDE DEF days
  <1> QED
    BY <1>3, <1>4, <1>5

LEMMA RightSame ==
    ASSUME Places, NEW s \in P!Series, NEW d \in RankDays, NEW p, Right(s, d, p), late \subseteq late',
           \/ \A e \in 1 .. d - 1 : ranks'[s][e] = ranks[s][e]
           \/ \E e \in 1 .. d - 1 : <<s, e>> \in late'
    PROVE  Right(s, d, p)'
  <1>1. CASE \E e \in 1 .. d - 1 : <<s, e>> \in late'
    BY <1>1 DEF Right
  <1>2. CASE \A e \in 1 .. d - 1 : ranks'[s][e] = ranks[s][e]
    BY <1>2, PreviousSame DEF Right
  <1> QED
    BY <1>1, <1>2

\* A row is written: the other rows are as they were, and what is held or shown as the rank
\* before is right still.
LEMMA RankUpserts ==
    ASSUME Places, RankInv, NEW s \in P!Series, NEW d \in 1 .. ofDay, NEW rank \in Position \union {P!Null},
           NEW prev, P!Upsert(s, d, rank, prev), Right(s, d, prev), UNCHANGED ofDay
    PROVE  /\ ranks' = [t \in P!Series |-> [e \in RankDays |-> ranks'[t][e]]]
           /\ late \subseteq late'
           /\ Row(s, d)'
           /\ \A t \in P!Series, e \in RankDays : t # s \/ e # d => ranks'[t][e] = ranks[t][e]
           /\ \A t \in P!Series, e \in 1 .. ofDay : \A p : Right(t, e, p) => Right(t, e, p)'
           /\ \A t \in P!Series, e \in RankDays : Row(t, e)' => e <= ofDay' /\ Right(t, e, ranks[t][e].prev)'
  <1>1. d \in RankDays /\ ofDay \in RankDays /\ MaxDays \in Nat
    BY DEF RankInv, RankTypes, RankDays, Places
  <1>2. ranks = [t \in P!Series |-> [e \in RankDays |-> ranks[t][e]]]
    BY DEF RankInv, RankTypes
  <1>3. ranks' = [ranks EXCEPT ![s][d] = [rank |-> rank, prev |-> prev]]
    BY DEF P!Upsert
  <1>4. /\ ranks' = [t \in P!Series |-> [e \in RankDays |-> ranks'[t][e]]]
        /\ ranks'[s][d] = [rank |-> rank, prev |-> prev]
        /\ \A t \in P!Series, e \in RankDays : t # s \/ e # d => ranks'[t][e] = ranks[t][e]
    BY <1>1, <1>2, <1>3
  <1>5. Row(s, d)' /\ ranks'[s][d].prev = prev
    <2>1. rank # -1
      BY DEF Places, P!Null
    <2> QED
      BY <1>4, <2>1 DEF Row, P!NoRow
  <1>6. late \subseteq late' /\ (ofDay > d => <<s, d>> \in late')
    BY DEF P!Upsert
  <1>7. ASSUME NEW t \in P!Series, NEW e \in RankDays, NEW p, e <= ofDay, Right(t, e, p) PROVE Right(t, e, p)'
    <2>1. CASE t = s /\ d < e
      <3>1. ofDay > d /\ d \in 1 .. e - 1
        BY <1>1, <1>7, <2>1 DEF RankDays
      <3> QED
        BY <1>6, <1>7, <2>1, <3>1, RightSame
    <2>2. CASE ~(t = s /\ d < e)
      <3>1. ASSUME NEW f \in 1 .. e - 1 PROVE ranks'[t][f] = ranks[t][f]
        <4>1. f \in RankDays /\ (t # s \/ f # d)
          BY <1>1, <2>2 DEF RankDays
        <4> QED
          BY <1>4, <4>1
      <3> QED
        BY <1>6, <1>7, <3>1, RightSame
    <2> QED
      BY <2>1, <2>2
  <1>8. \A t \in P!Series, e \in 1 .. ofDay : \A p : Right(t, e, p) => Right(t, e, p)'
    BY <1>1, <1>7 DEF RankDays
  <1>9. ASSUME NEW t \in P!Series, NEW e \in RankDays, Row(t, e)'
        PROVE  e <= ofDay' /\ Right(t, e, ranks[t][e].prev)'
    <2>1. CASE t = s /\ e = d
      <3>1. Right(s, d, prev)'
        BY <1>1, <1>7
      <3> QED
        BY <1>1, <1>5, <2>1, <3>1 DEF Right
    <2>2. CASE t # s \/ e # d
      <3>1. ranks'[t][e] = ranks[t][e] /\ Row(t, e)
        BY <1>4, <1>9, <2>2 DEF Row, P!NoRow
      <3>2. e <= ofDay /\ Right(t, e, ranks[t][e].prev)
        BY <3>1 DEF RankInv
      <3>3. \A p : Right(t, e, p) => Right(t, e, p)'
        BY <1>7, <3>2
      <3> QED
        BY <3>1, <3>2, <3>3 DEF Right
    <2> QED
      BY <2>1, <2>2
  <1> QED
    BY <1>4, <1>5, <1>6, <1>8, <1>9

\* What a run holds is held through what other actors write.
LEMMA HeldKept ==
    ASSUME Places, NEW y \in Scanner, Held(scan[y]), scan'[y] = scan[y], ofDay' >= ofDay,
           ofDay \in Nat, ofDay' \in Nat,
           \A z \in Keyword \union Rival : P!Gone(z) => P!Gone(z)',
           \A k \in Keyword, d \in 1 .. ofDay : Row(<<k>>, d) => Row(<<k>>, d)' \/ P!Gone(k)',
           \A k \in Keyword, d \in 1 .. ofDay : \A p : Right(<<k>>, d, p) => Right(<<k>>, d, p)' \/ P!Gone(k)',
           \A c \in Chart, d \in 1 .. ofDay : \A p : Right(<<c>>, d, p) => Right(<<c>>, d, p)',
           \A k \in Keyword, r \in Rival, d \in 1 .. ofDay : \A p :
              Right(<<k, r>>, d, p) => Right(<<k, r>>, d, p)' \/ P!Gone(k)' \/ P!Gone(r)'
    PROVE  Held(scan[y])'
  <1> PICK w : w = scan[y]
    OBVIOUS
  <1>1. Held(w) /\ scan'[y] = w
    OBVIOUS
  <1>2. /\ w.at \in {"idle", "search", "own", "rivals", "chart", "position"}
        /\ w.at # "idle" => w.today \in 1 .. ofDay'
        /\ w.at \in {"search", "own", "rivals"} => w.rivals \subseteq Rival /\ w.todo \subseteq Keyword
        /\ w.at \in {"chart", "position"} => w.todo \subseteq Chart
    BY <1>1 DEF Held
  <1>3. ASSUME w.at = "own" PROVE \E k \in Keyword : HeldOwn(w, k)'
    <2>1. PICK k \in Keyword : w.left = {k} /\ (P!Gone(k) \/ Right(<<k>>, w.today, w.prev[k]))
      BY <1>1, <1>3 DEF Held, HeldOwn
    <2>2. w.today \in 1 .. ofDay
      BY <1>1, <1>3 DEF Held
    <2>3. P!Gone(k)' \/ Right(<<k>>, w.today, w.prev[k])'
      BY <2>1, <2>2
    <2> QED
      BY <2>1, <2>3 DEF HeldOwn
  <1>4. ASSUME w.at = "rivals" PROVE \E k \in Keyword : HeldRivals(w, k)'
    <2>1. PICK k \in Keyword : HeldRivals(w, k)
      BY <1>1, <1>4 DEF Held
    <2>2. w.today \in 1 .. ofDay /\ w.rivals \subseteq Rival /\ w.left \subseteq {k} \union w.rivals
      BY <1>1, <1>4, <2>1 DEF Held, HeldRivals
    <2>3. ASSUME ~P!Gone(k)', NEW r \in w.left \ {k}
          PROVE  P!Gone(r)' \/ Right(<<k, r>>, w.today, w.prev[r])'
      <3>1. r \in Rival /\ ~P!Gone(k)
        BY <2>2, <2>3
      <3>2. P!Gone(r) \/ Right(<<k, r>>, w.today, w.prev[r])
        BY <2>1, <3>1 DEF HeldRivals
      <3> QED
        BY <2>2, <2>3, <3>1, <3>2
    <2>4. ~P!Gone(k)' => Row(<<k>>, w.today)'
      <3>1. ~P!Gone(k)' => Row(<<k>>, w.today)
        BY <2>1 DEF HeldRivals
      <3> QED
        BY <2>2, <3>1
    <2> QED
      BY <2>1, <2>3, <2>4 DEF HeldRivals
  <1>5. ASSUME w.at = "position"
        PROVE  \E c \in Chart : w.left = {c} /\ Right(<<c>>, w.today, w.prev[c])'
    <2>1. PICK c \in Chart : w.left = {c} /\ Right(<<c>>, w.today, w.prev[c])
      BY <1>1, <1>5 DEF Held
    <2>2. w.today \in 1 .. ofDay
      BY <1>1, <1>5 DEF Held
    <2>3. Right(<<c>>, w.today, w.prev[c])'
      BY <2>1, <2>2
    <2> QED
      BY <2>1, <2>3
  <1>6. Held(w)'
    BY <1>2, <1>3, <1>4, <1>5 DEF Held
  <1> QED
    BY <1>1, <1>6 DEF Held, HeldOwn, HeldRivals

\* A run goes on, and no row changes.
LEMMA RunMoves ==
    ASSUME Places, RankInv, NEW x \in Scanner, NEW w, Scan(w), Held(w), scan' = [scan EXCEPT ![x] = w],
           unread' \in [Keyword -> SUBSET Rival], \A k \in Keyword : unread[k] \subseteq unread'[k],
           \A k \in Keyword, r \in Rival, d \in RankDays :
              Leading(k, d) /\ Ahead(scan[x], k, r, d) => Ahead(w, k, r, d) \/ r \in unread'[k],
           UNCHANGED <<ranking, ofDay, followed, ranks, late>>
    PROVE  RankInv'
  <1>1. scan = [y \in Scanner |-> scan[y]] /\ \A y \in Scanner : Scan(scan[y])
    BY DEF RankInv, RankTypes
  <1>2. /\ scan' = [y \in Scanner |-> scan'[y]]
        /\ scan'[x] = w
        /\ \A y \in Scanner : y # x => scan'[y] = scan[y]
    BY <1>1
  <1>3. /\ \A z : P!Gone(z)' <=> P!Gone(z)
        /\ \A t, e : Row(t, e)' <=> Row(t, e)
        /\ \A t, e, p : Right(t, e, p)' <=> Right(t, e, p)
    BY DEF P!Gone, Row, P!NoRow, Right, P!Previous, P!Captured, P!Before, P!Null
  <1>4. RankTypes'
    BY <1>1, <1>2 DEF RankInv, RankTypes, Scan
  <1>5. ASSUME NEW y \in Scanner PROVE Held(scan[y])'
    <2>1. ofDay \in Nat
      BY DEF RankInv, RankTypes, RankDays
    <2>2. CASE y # x
      BY <1>2, <1>3, <2>1, <2>2, HeldKept DEF RankInv
    <2>3. CASE y = x
      BY <1>2, <1>3, <2>3 DEF Held, HeldOwn, HeldRivals
    <2> QED
      BY <2>2, <2>3
  <1>6. \A s \in P!Series, d \in RankDays : Row(s, d)' => d <= ofDay' /\ Right(s, d, ranks[s][d].prev)'
    BY <1>3 DEF RankInv, Row, Right, P!NoRow, P!Previous, P!Captured, P!Before, P!Null
  <1>7. Beside'
    <2>1. \A k, d : Leading(k, d)' <=> Leading(k, d)
      BY <1>3 DEF Leading, Row, P!NoRow
    <2>2. ASSUME NEW k \in Keyword, NEW d \in RankDays, NEW r \in Rival, r \notin unread'[k],
                 Row(<<k>>, d), Leading(k, d), ~P!Gone(r), ~Row(<<k, r>>, d)
          PROVE  \E y \in Scanner : Ahead(scan'[y], k, r, d)
      <3>1. PICK y \in Scanner : Ahead(scan[y], k, r, d)
        BY <2>2 DEF RankInv, Beside
      <3>2. Ahead(scan'[y], k, r, d)
        BY <1>2, <2>2, <3>1
      <3> QED
        BY <3>2
    <2> QED
      BY <1>3, <2>1, <2>2 DEF RankInv, Beside, Ahead
  <1> QED
    BY <1>4, <1>5, <1>6, <1>7 DEF RankInv

LEMMA RankInit ==
    ASSUME Places, P!Init PROVE RankInv
  <1>1. /\ ranking \in {"aso.ranks", "aso.charts"}
        /\ ofDay = 1
        /\ followed = [x \in Keyword \union Rival |-> "none"]
        /\ ranks = [s \in P!Series |-> [d \in 1 .. MaxDays |-> P!NoRow]]
        /\ scan = [x \in Scanner |-> P!Idle]
        /\ unread = [k \in Keyword |-> {}]
    BY DEF P!Init
  <1>2. 1 \in RankDays
    BY DEF Places, RankDays
  <1>3. \A s \in P!Series, d \in RankDays : ~Row(s, d)
    BY <1>1 DEF Row, RankDays
  <1>4. \A x \in Scanner : scan[x] = P!Idle /\ Scan(scan[x]) /\ Held(scan[x])
    BY <1>1 DEF P!Idle, Scan, Held
  <1>5. RankTypes
    <2>1. followed \in [Keyword \union Rival -> {"none", "tracked", "untracked", "gone"}]
      BY <1>1
    <2>2. ranks = [s \in P!Series |-> [d \in RankDays |-> ranks[s][d]]]
      BY <1>1 DEF RankDays
    <2>3. scan = [x \in Scanner |-> scan[x]] /\ unread \in [Keyword -> SUBSET Rival]
      BY <1>1
    <2> QED
      BY <1>1, <1>2, <1>4, <2>1, <2>2, <2>3 DEF RankTypes
  <1>6. Beside
    BY <1>3, SeriesOf DEF Beside
  <1> QED
    BY <1>3, <1>4, <1>5, <1>6 DEF RankInv

\* The keyword a run is at.
LEMMA ScannedIs ==
    ASSUME Places, RankInv, NEW x \in Scanner
    PROVE  /\ scan[x].at = "own" => P!Scanned(x) \in Keyword /\ HeldOwn(scan[x], P!Scanned(x))
           /\ scan[x].at = "rivals" =>
                /\ P!Scanned(x) \in Keyword /\ HeldRivals(scan[x], P!Scanned(x))
                /\ scan[x].left \intersect Keyword = {P!Scanned(x)}
  <1>1. Held(scan[x])
    BY DEF RankInv
  <1>2. ASSUME NEW k \in Keyword, scan[x].left \intersect Keyword = {k} PROVE P!Scanned(x) = k
    BY <1>2 DEF P!Scanned
  <1>3. ASSUME scan[x].at = "own"
        PROVE  P!Scanned(x) \in Keyword /\ HeldOwn(scan[x], P!Scanned(x))
    <2>1. PICK k \in Keyword : HeldOwn(scan[x], k)
      BY <1>1, <1>3 DEF Held
    <2>2. scan[x].left \intersect Keyword = {k}
      BY <2>1 DEF HeldOwn
    <2> QED
      BY <1>2, <2>1, <2>2
  <1>4. ASSUME scan[x].at = "rivals"
        PROVE  /\ P!Scanned(x) \in Keyword /\ HeldRivals(scan[x], P!Scanned(x))
               /\ scan[x].left \intersect Keyword = {P!Scanned(x)}
    <2>1. PICK k \in Keyword : HeldRivals(scan[x], k)
      BY <1>1, <1>4 DEF Held
    <2>2. scan[x].rivals \subseteq Rival
      BY <1>1, <1>4 DEF Held
    <2>3. scan[x].left \intersect Keyword = {k}
      BY <2>1, <2>2 DEF HeldRivals, Places
    <2> QED
      BY <1>2, <2>1, <2>3
  <1> QED
    BY <1>3, <1>4

\* The fields a step assigns.
LEMMA ScanWith ==
    ASSUME NEW w, Scan(w), NEW a, NEW d, NEW t, NEW q, NEW l, NEW p
    PROVE  /\ [w EXCEPT !.at = a, !.left = l, !.prev = p] =
                [at |-> a, today |-> w.today, todo |-> w.todo, rivals |-> w.rivals, left |-> l, prev |-> p]
           /\ [w EXCEPT !.at = a, !.todo = t, !.left = l, !.prev = p] =
                [at |-> a, today |-> w.today, todo |-> t, rivals |-> w.rivals, left |-> l, prev |-> p]
           /\ [w EXCEPT !.at = a, !.today = d, !.todo = t, !.rivals = q] =
                [at |-> a, today |-> d, todo |-> t, rivals |-> q, left |-> w.left, prev |-> w.prev]
           /\ [w EXCEPT !.at = a, !.today = d, !.todo = t] =
                [at |-> a, today |-> d, todo |-> t, rivals |-> w.rivals, left |-> w.left, prev |-> w.prev]
  <1>1. [w EXCEPT !.at = a, !.left = l, !.prev = p] =
          [at |-> a, today |-> w.today, todo |-> w.todo, rivals |-> w.rivals, left |-> l, prev |-> p]
    <2> PICK v : v = [w EXCEPT !.at = a, !.left = l, !.prev = p]
      OBVIOUS
    <2>1. v.at = a /\ v.today = w.today /\ v.todo = w.todo /\ v.rivals = w.rivals /\ v.left = l /\ v.prev = p
      BY DEF Scan
    <2>2. Scan(v)
      BY DEF Scan
    <2> QED
      BY <2>1, <2>2 DEF Scan
  <1>2. [w EXCEPT !.at = a, !.todo = t, !.left = l, !.prev = p] =
          [at |-> a, today |-> w.today, todo |-> t, rivals |-> w.rivals, left |-> l, prev |-> p]
    <2> PICK v : v = [w EXCEPT !.at = a, !.todo = t, !.left = l, !.prev = p]
      OBVIOUS
    <2>1. v.at = a /\ v.today = w.today /\ v.todo = t /\ v.rivals = w.rivals /\ v.left = l /\ v.prev = p
      BY DEF Scan
    <2>2. Scan(v)
      BY DEF Scan
    <2> QED
      BY <2>1, <2>2 DEF Scan
  <1>3. [w EXCEPT !.at = a, !.today = d, !.todo = t, !.rivals = q] =
          [at |-> a, today |-> d, todo |-> t, rivals |-> q, left |-> w.left, prev |-> w.prev]
    <2> PICK v : v = [w EXCEPT !.at = a, !.today = d, !.todo = t, !.rivals = q]
      OBVIOUS
    <2>1. v.at = a /\ v.today = d /\ v.todo = t /\ v.rivals = q /\ v.left = w.left /\ v.prev = w.prev
      BY DEF Scan
    <2>2. Scan(v)
      BY DEF Scan
    <2> QED
      BY <2>1, <2>2 DEF Scan
  <1>4. [w EXCEPT !.at = a, !.today = d, !.todo = t] =
          [at |-> a, today |-> d, todo |-> t, rivals |-> w.rivals, left |-> w.left, prev |-> w.prev]
    <2> PICK v : v = [w EXCEPT !.at = a, !.today = d, !.todo = t]
      OBVIOUS
    <2>1. v.at = a /\ v.today = d /\ v.todo = t /\ v.rivals = w.rivals /\ v.left = w.left /\ v.prev = w.prev
      BY DEF Scan
    <2>2. Scan(v)
      BY DEF Scan
    <2> QED
      BY <2>1, <2>2 DEF Scan
  <1> QED
    BY <1>1, <1>2, <1>3, <1>4

-----------------------------------------------------------------------------

LEMMA RankBegins ==
    ASSUME Places, RankInv, NEW x \in Scanner, P!Begin(x) PROVE RankInv'
  <1> PICK w : w = [P!Idle EXCEPT !.at = "search", !.today = ofDay, !.todo = P!Tracked(Keyword), !.rivals = P!Tracked(Rival)]
    OBVIOUS
  <1>1. /\ scan[x] = P!Idle /\ P!Idle.at = "idle" /\ ofDay \in 1 .. ofDay
        /\ P!Tracked(Keyword) \subseteq Keyword /\ P!Tracked(Rival) \subseteq Rival
    BY DEF P!Begin, P!Idle, P!Tracked, RankInv, RankTypes, RankDays
  <1>2. /\ w.at = "search" /\ w.today = ofDay /\ w.todo = P!Tracked(Keyword) /\ w.rivals = P!Tracked(Rival)
        /\ Scan(w)
    BY DEF Scan, P!Idle
  <1>3. scan' = [scan EXCEPT ![x] = w]
    BY DEF P!Begin
  <1>4. Held(w)
    BY <1>1, <1>2 DEF Held
  <1>5. \A j, d : \A r \in Rival : ~Ahead(scan[x], j, r, d)
    BY <1>1 DEF Ahead
  <1>6. unread' = unread /\ unread \in [Keyword -> SUBSET Rival]
    BY DEF P!Begin, RankInv, RankTypes
  <1>7. ranking' = ranking /\ ofDay' = ofDay /\ followed' = followed /\ ranks' = ranks /\ late' = late
    BY DEF P!Begin
  <1> QED
    BY <1>2, <1>3, <1>4, <1>5, <1>6, <1>7, RunMoves

LEMMA RankSearches ==
    ASSUME Places, RankInv, NEW x \in Scanner, NEW k \in Keyword, P!Search(x, k) PROVE RankInv'
  <1> PICK v : v = scan[x]
    OBVIOUS
  <1> PICK p : p = P!Previous(<<k>>, v.today)
    OBVIOUS
  <1> PICK w : w = [v EXCEPT !.at = "own", !.left = {k}, !.prev = [z \in {k} |-> p]]
    OBVIOUS
  <1>1. /\ v.at = "search" /\ k \in v.todo
        /\ Scan(v) /\ Held(v)
    BY DEF P!Search, RankInv, RankTypes
  <1>2. /\ w.at = "own" /\ w.left = {k} /\ w.prev = [z \in {k} |-> p]
        /\ w.today = v.today /\ w.todo = v.todo /\ w.rivals = v.rivals
        /\ Scan(w)
    BY <1>1 DEF Scan
  <1>3. scan' = [scan EXCEPT ![x] = w]
    <2>1. [z \in {k} |-> P!Previous(<<z>>, scan[x].today)] = [z \in {k} |-> p]
      OBVIOUS
    <2>2. scan' = [scan EXCEPT ![x] = [scan[x] EXCEPT !.at = "own", !.left = {k},
                                                     !.prev = [z \in {k} |-> p]]]
      BY <2>1 DEF P!Search
    <2> QED
      BY <2>2
  <1>4. Held(w)
    <2>1. Right(<<k>>, w.today, w.prev[k])
      BY <1>2 DEF Right
    <2> QED
      BY <1>1, <1>2, <2>1 DEF Held, HeldOwn
  <1>5. \A j, d : \A r \in Rival : ~Ahead(scan[x], j, r, d)
    BY <1>1 DEF Ahead
  <1>6. unread' = unread /\ unread \in [Keyword -> SUBSET Rival]
    BY DEF P!Search, RankInv, RankTypes
  <1>7. ranking' = ranking /\ ofDay' = ofDay /\ followed' = followed /\ ranks' = ranks /\ late' = late
    BY DEF P!Search
  <1> QED
    BY <1>2, <1>3, <1>4, <1>5, <1>6, <1>7, RunMoves

LEMMA RankGoesOn ==
    ASSUME Places, RankInv, NEW x \in Scanner, P!NextKeyword(x) PROVE RankInv'
  <1> PICK v : v = scan[x]
    OBVIOUS
  <1> PICK w : w = [v EXCEPT !.at = "search", !.todo = v.todo \ v.left, !.left = {}, !.prev = <<>>]
    OBVIOUS
  <1>1. /\ v.at = "rivals" /\ v.left \subseteq Keyword
        /\ Scan(v) /\ Held(v)
    BY DEF P!NextKeyword, RankInv, RankTypes
  <1>2. /\ w.at = "search" /\ w.todo = v.todo \ v.left /\ w.left = {} /\ w.prev = <<>>
        /\ w.today = v.today /\ w.rivals = v.rivals
        /\ Scan(w)
    BY <1>1 DEF Scan
  <1>3. scan' = [scan EXCEPT ![x] = w]
    BY DEF P!NextKeyword
  <1>4. Held(w)
    BY <1>1, <1>2 DEF Held
  <1>5. \A j, d : \A r \in Rival : ~Ahead(scan[x], j, r, d)
    BY <1>1 DEF Ahead, Places
  <1>6. unread' = unread /\ unread \in [Keyword -> SUBSET Rival]
    BY DEF P!NextKeyword, RankInv, RankTypes
  <1>7. ranking' = ranking /\ ofDay' = ofDay /\ followed' = followed /\ ranks' = ranks /\ late' = late
    BY DEF P!NextKeyword
  <1> QED
    BY <1>2, <1>3, <1>4, <1>5, <1>6, <1>7, RunMoves

\* The run is over: what it had not got to is missed, if the newest row is its.
LEMMA RankEnds ==
    ASSUME Places, RankInv, NEW x \in Scanner, P!Ends(x),
           UNCHANGED <<ranking, ofDay, followed, ranks, late>>
    PROVE  RankInv'
  <1>1. Scan(P!Idle) /\ Held(P!Idle) /\ scan' = [scan EXCEPT ![x] = P!Idle]
    BY DEF P!Idle, Scan, Held, P!Ends
  <1>2. unread \in [Keyword -> SUBSET Rival]
    BY DEF RankInv, RankTypes
  <1>3. unread' \in [Keyword -> SUBSET Rival] /\ \A k \in Keyword : unread[k] \subseteq unread'[k]
    BY <1>2, ScannedIs DEF P!Ends
  <1>4. ASSUME NEW k \in Keyword, NEW r \in Rival, NEW d \in RankDays, Leading(k, d), Ahead(scan[x], k, r, d)
        PROVE  r \in unread'[k]
    <2>1. scan[x].at = "rivals" /\ k \in scan[x].left /\ r \in scan[x].left /\ scan[x].today = d
      BY <1>4 DEF Ahead
    <2>2. k = P!Scanned(x)
      BY <2>1, ScannedIs
    <2>3. P!Leads(k, d)
      BY <1>4 DEF P!Leads, P!Captured, Leading, Row, RankDays
    <2>4. unread' = [unread EXCEPT ![k] = @ \union (scan[x].left \intersect Rival)]
      BY <2>1, <2>2, <2>3 DEF P!Ends
    <2> QED
      BY <1>2, <2>1, <2>4
  <1> QED
    BY <1>1, <1>3, <1>4, RunMoves

\* A run that holds no row ends with its keywords, or goes on with the charts.
LEMMA RankFinishes ==
    ASSUME Places, RankInv, NEW x \in Scanner, P!Finish(x) \/ P!FinishCharts(x) PROVE RankInv'
  <1>1. Scan(P!Idle) /\ Held(P!Idle)
    BY DEF P!Idle, Scan, Held
  <1>2. scan' = [scan EXCEPT ![x] = P!Idle] /\ scan[x].at \in {"search", "chart"}
    BY DEF P!Finish, P!FinishCharts
  <1>3. \A k, r, d : ~Ahead(scan[x], k, r, d)
    BY <1>2 DEF Ahead
  <1>4. unread' = unread /\ unread \in [Keyword -> SUBSET Rival]
    BY DEF P!Finish, P!FinishCharts, RankInv, RankTypes
  <1>5. ranking' = ranking /\ ofDay' = ofDay /\ followed' = followed /\ ranks' = ranks /\ late' = late
    BY DEF P!Finish, P!FinishCharts
  <1> QED
    BY <1>1, <1>2, <1>3, <1>4, <1>5, RunMoves

LEMMA ChartsBegin ==
    ASSUME Places, RankInv, NEW x \in Scanner, P!BeginCharts(x) PROVE RankInv'
  <1> PICK w : w = [P!Idle EXCEPT !.at = "chart", !.today = ofDay, !.todo = Chart]
    OBVIOUS
  <1>1. scan[x] = P!Idle /\ P!Idle.at = "idle" /\ ofDay \in 1 .. ofDay
    BY DEF P!BeginCharts, P!Idle, RankInv, RankTypes, RankDays
  <1>2. /\ w.at = "chart" /\ w.today = ofDay /\ w.todo = Chart
        /\ Scan(w)
    BY DEF Scan, P!Idle
  <1>3. scan' = [scan EXCEPT ![x] = w]
    BY DEF P!BeginCharts
  <1>4. Held(w)
    BY <1>1, <1>2 DEF Held
  <1>5. \A j, d : \A r \in Rival : ~Ahead(scan[x], j, r, d)
    BY <1>1 DEF Ahead
  <1>6. unread' = unread /\ unread \in [Keyword -> SUBSET Rival]
    BY DEF P!BeginCharts, RankInv, RankTypes
  <1>7. ranking' = ranking /\ ofDay' = ofDay /\ followed' = followed /\ ranks' = ranks /\ late' = late
    BY DEF P!BeginCharts
  <1> QED
    BY <1>2, <1>3, <1>4, <1>5, <1>6, <1>7, RunMoves

LEMMA ChartIsRead ==
    ASSUME Places, RankInv, NEW x \in Scanner, NEW c \in Chart, P!ReadChart(x, c) PROVE RankInv'
  <1> PICK v : v = scan[x]
    OBVIOUS
  <1> PICK p : p = P!Previous(<<c>>, v.today)
    OBVIOUS
  <1> PICK w : w = [v EXCEPT !.at = "position", !.left = {c}, !.prev = [z \in {c} |-> p]]
    OBVIOUS
  <1>1. /\ v.at = "chart"
        /\ Scan(v) /\ Held(v)
    BY DEF P!ReadChart, RankInv, RankTypes
  <1>2. /\ w.at = "position" /\ w.left = {c} /\ w.prev = [z \in {c} |-> p]
        /\ w.today = v.today /\ w.todo = v.todo /\ w.rivals = v.rivals
        /\ Scan(w)
    BY <1>1 DEF Scan
  <1>3. scan' = [scan EXCEPT ![x] = w]
    <2>1. [z \in {c} |-> P!Previous(<<z>>, scan[x].today)] = [z \in {c} |-> p]
      OBVIOUS
    <2>2. scan' = [scan EXCEPT ![x] = [scan[x] EXCEPT !.at = "position", !.left = {c},
                                                     !.prev = [z \in {c} |-> p]]]
      BY <2>1 DEF P!ReadChart
    <2> QED
      BY <2>2
  <1>4. Held(w)
    <2>1. Right(<<c>>, w.today, w.prev[c])
      BY <1>2 DEF Right
    <2> QED
      BY <1>1, <1>2, <2>1 DEF Held, HeldOwn
  <1>5. \A j, d : \A r \in Rival : ~Ahead(scan[x], j, r, d)
    BY <1>1 DEF Ahead
  <1>6. unread' = unread /\ unread \in [Keyword -> SUBSET Rival]
    BY DEF P!ReadChart, RankInv, RankTypes
  <1>7. ranking' = ranking /\ ofDay' = ofDay /\ followed' = followed /\ ranks' = ranks /\ late' = late
    BY DEF P!ReadChart
  <1> QED
    BY <1>2, <1>3, <1>4, <1>5, <1>6, <1>7, RunMoves

LEMMA ChartIsSkipped ==
    ASSUME Places, RankInv, NEW x \in Scanner, P!SkipChart(x) PROVE RankInv'
  <1> PICK v : v = scan[x]
    OBVIOUS
  <1>0. PICK c : scan' = P!ChartDone(x, c)
    BY DEF P!SkipChart
  <1> PICK w : w = [v EXCEPT !.at = "chart", !.todo = v.todo \ {c}, !.left = {}, !.prev = <<>>]
    OBVIOUS
  <1>1. /\ v.at \in {"chart", "position"}
        /\ Scan(v) /\ Held(v)
    BY DEF P!SkipChart, RankInv, RankTypes
  <1>2. /\ w.at = "chart" /\ w.todo = v.todo \ {c} /\ w.left = {} /\ w.prev = <<>>
        /\ w.today = v.today /\ w.rivals = v.rivals
        /\ Scan(w)
    BY <1>1 DEF Scan
  <1>3. scan' = [scan EXCEPT ![x] = w]
    BY <1>0 DEF P!ChartDone
  <1>4. Held(w)
    BY <1>1, <1>2 DEF Held
  <1>5. \A j, d : \A r \in Rival : ~Ahead(scan[x], j, r, d)
    BY <1>1 DEF Ahead
  <1>6. unread' = unread /\ unread \in [Keyword -> SUBSET Rival]
    BY DEF P!SkipChart, RankInv, RankTypes
  <1>7. ranking' = ranking /\ ofDay' = ofDay /\ followed' = followed /\ ranks' = ranks /\ late' = late
    BY DEF P!SkipChart
  <1> QED
    BY <1>2, <1>3, <1>4, <1>5, <1>6, <1>7, RunMoves

-----------------------------------------------------------------------------
\* A run writes a row and goes on: what remains to be seen is that it holds what is right,
\* and that the newest rows still stand beside each other.
LEMMA RankWrites ==
    ASSUME Places, RankInv, NEW x \in Scanner, NEW w, Scan(w), NEW s \in P!Series,
           NEW d \in 1 .. ofDay, NEW rank \in Position \union {P!Null}, NEW prev,
           P!Upsert(s, d, rank, prev), Right(s, d, prev), scan' = [scan EXCEPT ![x] = w],
           Held(w)', Beside', unread' \in [Keyword -> SUBSET Rival],
           ranking' = ranking, ofDay' = ofDay, followed' = followed
    PROVE  RankInv'
  <1>1. scan = [y \in Scanner |-> scan[y]] /\ (\A y \in Scanner : Scan(scan[y])) /\ ofDay \in Nat
    BY DEF RankInv, RankTypes, RankDays
  <1>2. /\ scan' = [y \in Scanner |-> scan'[y]]
        /\ scan'[x] = w
        /\ \A y \in Scanner : y # x => scan'[y] = scan[y]
    BY <1>1
  <1>3. /\ ranks' = [t \in P!Series |-> [e \in RankDays |-> ranks'[t][e]]]
        /\ Row(s, d)'
        /\ \A t \in P!Series, e \in RankDays : t # s \/ e # d => ranks'[t][e] = ranks[t][e]
        /\ \A t \in P!Series, e \in 1 .. ofDay : \A p : Right(t, e, p) => Right(t, e, p)'
        /\ \A t \in P!Series, e \in RankDays : Row(t, e)' => e <= ofDay' /\ Right(t, e, ranks[t][e].prev)'
    BY RankUpserts
  <1>4. RankTypes'
    BY <1>1, <1>2, <1>3 DEF RankInv, RankTypes, Scan, RankDays
  <1>5. ASSUME NEW y \in Scanner PROVE Held(scan[y])'
    <2>1. CASE y = x
      BY <1>2, <2>1 DEF Held, HeldOwn, HeldRivals
    <2>2. CASE y # x
      <3>1. \A z \in Keyword \union Rival : P!Gone(z) => P!Gone(z)'
        BY DEF P!Gone
      <3>2. \A k \in Keyword, e \in 1 .. ofDay : Row(<<k>>, e) => Row(<<k>>, e)'
        <4>1. ofDay \in RankDays /\ MaxDays \in Nat
          BY DEF RankInv, RankTypes, Places
        <4>2. \A k \in Keyword, e \in 1 .. ofDay : <<k>> \in P!Series /\ e \in RankDays
          BY <4>1, SeriesOf DEF RankDays
        <4> QED
          BY <1>3, <4>2 DEF Row, P!NoRow
      <3>3. /\ \A k \in Keyword, e \in 1 .. ofDay : \A p : Right(<<k>>, e, p) => Right(<<k>>, e, p)'
            /\ \A c \in Chart, e \in 1 .. ofDay : \A p : Right(<<c>>, e, p) => Right(<<c>>, e, p)'
            /\ \A k \in Keyword, r \in Rival, e \in 1 .. ofDay : \A p :
                  Right(<<k, r>>, e, p) => Right(<<k, r>>, e, p)'
        BY <1>3, SeriesOf
      <3>4. Held(scan[y]) /\ scan'[y] = scan[y]
        BY <1>2, <2>2 DEF RankInv
      <3> QED
        BY <1>1, <3>1, <3>2, <3>3, <3>4, HeldKept
    <2> QED
      BY <2>1, <2>2
  <1> QED
    BY <1>3, <1>4, <1>5 DEF RankInv

\* The app's own row: the competitors loaded are ahead, the others are missed.
LEMMA RankOwn ==
    ASSUME Places, RankInv, NEW x \in Scanner, P!WriteOwn(x) PROVE RankInv'
  <1> PICK v : v = scan[x]
    OBVIOUS
  <1> PICK k : k = P!Scanned(x)
    OBVIOUS
  <1>1. /\ v.at = "own" /\ ~P!Gone(k)
        /\ Scan(v) /\ Held(v) /\ k \in Keyword /\ HeldOwn(v, k)
    BY ScannedIs DEF P!WriteOwn, RankInv, RankTypes
  <1>2. PICK prev : prev = [r \in v.rivals |-> P!Previous(<<k, r>>, v.today)]
    OBVIOUS
  <1>3. PICK w : w = [v EXCEPT !.at = "rivals", !.left = {k} \union v.rivals, !.prev = prev]
    OBVIOUS
  <1>4. /\ w.at = "rivals" /\ w.left = {k} \union v.rivals /\ w.prev = prev
        /\ w.today = v.today /\ w.todo = v.todo /\ w.rivals = v.rivals
        /\ Scan(w)
    BY <1>1, <1>3 DEF Scan
  <1>5. scan' = [scan EXCEPT ![x] = w]
    BY <1>2, <1>3 DEF P!WriteOwn
  <1>6. PICK rank \in Position \union {P!Null} : P!Upsert(<<k>>, v.today, rank, v.prev[k])
    BY DEF P!WriteOwn
  <1>7. /\ v.today \in 1 .. ofDay /\ v.rivals \subseteq Rival /\ v.todo \subseteq Keyword
        /\ Right(<<k>>, v.today, v.prev[k]) /\ <<k>> \in P!Series
    BY <1>1, SeriesOf DEF Held, HeldOwn
  <1>8. unread' = IF P!Leads(k, v.today) THEN [unread EXCEPT ![k] = Rival \ v.rivals] ELSE unread
    BY DEF P!WriteOwn
  <1>9. /\ ranking' = ranking /\ ofDay' = ofDay /\ followed' = followed
        /\ unread \in [Keyword -> SUBSET Rival]
    BY DEF P!WriteOwn, RankInv, RankTypes
  <1>10. /\ Row(<<k>>, v.today)'
         /\ \A t \in P!Series, e \in RankDays : t # <<k>> \/ e # v.today => ranks'[t][e] = ranks[t][e]
         /\ \A t \in P!Series, e \in 1 .. ofDay : \A p : Right(t, e, p) => Right(t, e, p)'
    BY <1>6, <1>7, <1>9, RankUpserts
  <1>11. /\ \A j \in Keyword, r \in Rival, e \in RankDays : Row(<<j, r>>, e)' <=> Row(<<j, r>>, e)
         /\ \A j \in Keyword, e \in RankDays :
              Row(<<j>>, e)' <=> Row(<<j>>, e) \/ (j = k /\ e = v.today)
         /\ \A z : P!Gone(z)' <=> P!Gone(z)
    <2>1. \A j \in Keyword, r \in Rival, e \in RankDays : ranks'[<<j, r>>][e] = ranks[<<j, r>>][e]
      BY <1>10, SeriesOf
    <2>2. \A j \in Keyword, e \in RankDays : j # k \/ e # v.today => ranks'[<<j>>][e] = ranks[<<j>>][e]
      BY <1>10, SeriesOf
    <2> QED
      BY <1>9, <1>10, <2>1, <2>2 DEF Row, P!NoRow, P!Gone
  <1>12. Held(w)'
    <2>1. ASSUME NEW r \in v.rivals PROVE Right(<<k, r>>, w.today, w.prev[r])'
      <3>1. Right(<<k, r>>, w.today, w.prev[r])
        BY <1>2, <1>4, <2>1 DEF Right
      <3> QED
        BY <1>1, <1>4, <1>7, <1>10, <3>1, SeriesOf
    <2>2. HeldRivals(w, k)'
      BY <1>4, <1>10, <2>1 DEF HeldRivals
    <2> QED
      BY <1>1, <1>4, <1>7, <1>9, <2>2 DEF Held
  <1>13. Beside'
    <2>1. v.today \in RankDays
      BY <1>7 DEF RankInv, RankTypes, RankDays, Places
    <2>2. scan = [y \in Scanner |-> scan[y]]
      BY DEF RankInv, RankTypes
    <2>3. scan'[x] = w /\ \A y \in Scanner : y # x => scan'[y] = scan[y]
      BY <1>5, <2>2
    <2>4. ASSUME NEW j \in Keyword, NEW d \in RankDays, NEW r \in Rival, r \notin unread'[j],
                 Row(<<j>>, d)', Leading(j, d)', ~P!Gone(r), ~Row(<<j, r>>, d)
          PROVE  \E y \in Scanner : Ahead(scan'[y], j, r, d)
      <3>1. CASE j = k /\ d = v.today
        <4>1. P!Leads(k, v.today)
          BY <1>11, <2>4, <3>1 DEF P!Leads, P!Captured, Leading, Row, RankDays
        <4>2. r \in v.rivals
          BY <1>8, <1>9, <2>4, <3>1, <4>1
        <4> QED
          BY <1>4, <2>3, <3>1, <4>2 DEF Ahead
      <3>2. CASE ~(j = k /\ d = v.today)
        <4>1. Row(<<j>>, d) /\ Leading(j, d)
          BY <1>11, <2>4, <3>2 DEF Leading
        <4>2. r \notin unread[j]
          <5>1. CASE j = k
            <6>1. v.today <= d /\ v.today \in Int /\ d \in Int /\ d # v.today
              BY <1>11, <2>1, <2>4, <3>2, <5>1 DEF Leading, RankDays
            <6>2. d \in P!Captured(<<k>>)
              BY <4>1, <5>1 DEF P!Captured, Row, RankDays
            <6>3. ~P!Leads(k, v.today)
              BY <6>1, <6>2 DEF P!Leads
            <6> QED
              BY <1>8, <2>4, <5>1, <6>3
          <5>2. CASE j # k
            BY <1>8, <1>9, <2>4, <5>2
          <5> QED
            BY <5>1, <5>2
        <4>3. PICK y \in Scanner : Ahead(scan[y], j, r, d)
          BY <2>4, <4>1, <4>2 DEF RankInv, Beside
        <4>4. y # x
          BY <1>1, <4>3 DEF Ahead
        <4> QED
          BY <2>3, <4>3, <4>4
      <3> QED
        BY <3>1, <3>2
    <2>5. \A j \in Keyword, r \in Rival, d \in RankDays :
            Row(<<j, r>>, d)' => Row(<<j>>, d)' /\ ~P!Gone(r)'
      BY <1>11 DEF RankInv, Beside
    <2>6. \A j \in Keyword, d \in RankDays : Row(<<j>>, d)' => ~P!Gone(j)'
      BY <1>1, <1>11 DEF RankInv, Beside
    <2> QED
      BY <1>11, <2>4, <2>5, <2>6 DEF Beside, Ahead
  <1>14. unread' \in [Keyword -> SUBSET Rival]
    BY <1>8, <1>9
  <1> QED
    BY <1>4, <1>5, <1>6, <1>7, <1>9, <1>12, <1>13, <1>14, RankWrites

\* A competitor's row, beside the app's own.
LEMMA RankBeside ==
    ASSUME Places, RankInv, NEW x \in Scanner, NEW r \in Rival, P!WriteRival(x, r) PROVE RankInv'
  <1> PICK v : v = scan[x]
    OBVIOUS
  <1> PICK k : k = P!Scanned(x)
    OBVIOUS
  <1>1. /\ v.at = "rivals" /\ ~P!Gone(k) /\ ~P!Gone(r) /\ r \in v.left \ {k}
        /\ Scan(v) /\ Held(v) /\ k \in Keyword /\ HeldRivals(v, k) /\ v.left \intersect Keyword = {k}
    BY ScannedIs DEF P!WriteRival, RankInv, RankTypes
  <1>2. PICK w : w = [v EXCEPT !.left = v.left \ {r}]
    OBVIOUS
  <1>3. /\ w.at = "rivals" /\ w.left = v.left \ {r} /\ w.prev = v.prev
        /\ w.today = v.today /\ w.todo = v.todo /\ w.rivals = v.rivals
        /\ Scan(w)
    BY <1>1, <1>2 DEF Scan
  <1>4. scan' = [scan EXCEPT ![x] = w]
    BY <1>2 DEF P!WriteRival
  <1>5. PICK rank \in Position \union {P!Null} : P!Upsert(<<k, r>>, v.today, rank, v.prev[r])
    BY DEF P!WriteRival
  <1>6. /\ v.today \in 1 .. ofDay /\ v.rivals \subseteq Rival /\ v.todo \subseteq Keyword
        /\ v.left \subseteq {k} \union v.rivals /\ k \in v.left
        /\ Row(<<k>>, v.today) /\ Right(<<k, r>>, v.today, v.prev[r]) /\ <<k, r>> \in P!Series
    BY <1>1, SeriesOf DEF Held, HeldRivals
  <1>7. /\ ranking' = ranking /\ ofDay' = ofDay /\ followed' = followed /\ unread' = unread
        /\ unread \in [Keyword -> SUBSET Rival]
    BY DEF P!WriteRival, RankInv, RankTypes
  <1>8. /\ Row(<<k, r>>, v.today)'
        /\ \A t \in P!Series, e \in RankDays : t # <<k, r>> \/ e # v.today => ranks'[t][e] = ranks[t][e]
        /\ \A t \in P!Series, e \in 1 .. ofDay : \A p : Right(t, e, p) => Right(t, e, p)'
    BY <1>5, <1>6, <1>7, RankUpserts
  <1>9. v.today \in RankDays
    BY <1>6 DEF RankInv, RankTypes, RankDays, Places
  <1>10. /\ \A j \in Keyword, q \in Rival, e \in RankDays :
              Row(<<j, q>>, e)' <=> Row(<<j, q>>, e) \/ (j = k /\ q = r /\ e = v.today)
         /\ \A j \in Keyword, e \in RankDays : Row(<<j>>, e)' <=> Row(<<j>>, e)
         /\ \A z : P!Gone(z)' <=> P!Gone(z)
    <2>1. \A j \in Keyword, e \in RankDays : ranks'[<<j>>][e] = ranks[<<j>>][e]
      BY <1>8, SeriesOf
    <2>2. \A j \in Keyword, q \in Rival, e \in RankDays :
            ~(j = k /\ q = r /\ e = v.today) => ranks'[<<j, q>>][e] = ranks[<<j, q>>][e]
      BY <1>8, SeriesOf
    <2> QED
      BY <1>7, <1>8, <2>1, <2>2 DEF Row, P!NoRow, P!Gone
  <1>11. Held(w)'
    <2>1. ASSUME NEW q \in w.left \ {k} PROVE P!Gone(q)' \/ Right(<<k, q>>, w.today, w.prev[q])'
      <3>1. q \in v.left \ {k} /\ q \in Rival
        BY <1>3, <1>6, <2>1
      <3>2. P!Gone(q) \/ Right(<<k, q>>, v.today, v.prev[q])
        BY <1>1, <3>1 DEF HeldRivals
      <3> QED
        BY <1>1, <1>3, <1>6, <1>8, <1>10, <3>1, <3>2, SeriesOf
    <2>2. Row(<<k>>, w.today)'
      BY <1>1, <1>3, <1>6, <1>9, <1>10
    <2>3. k \in w.left /\ w.left \subseteq {k} \union w.rivals
      BY <1>1, <1>3, <1>6
    <2>4. HeldRivals(w, k)'
      BY <2>1, <2>2, <2>3 DEF HeldRivals
    <2> QED
      BY <1>1, <1>3, <1>6, <1>7, <2>4 DEF Held
  <1>12. Beside'
    <2>1. scan = [y \in Scanner |-> scan[y]]
      BY DEF RankInv, RankTypes
    <2>2. scan'[x] = w /\ \A y \in Scanner : y # x => scan'[y] = scan[y]
      BY <1>4, <2>1
    <2>3. ASSUME NEW j \in Keyword, NEW d \in RankDays, NEW q \in Rival, q \notin unread[j],
                 Row(<<j>>, d), Leading(j, d), ~P!Gone(q), ~Row(<<j, q>>, d)'
          PROVE  \E y \in Scanner : Ahead(scan'[y], j, q, d)
      <3>1. ~Row(<<j, q>>, d) /\ ~(j = k /\ q = r /\ d = v.today)
        BY <1>10, <2>3
      <3>2. PICK y \in Scanner : Ahead(scan[y], j, q, d)
        BY <2>3, <3>1 DEF RankInv, Beside
      <3>3. CASE y = x
        <4>1. j = k /\ d = v.today /\ q \in v.left
          BY <1>1, <3>2, <3>3 DEF Ahead
        <4>2. Ahead(w, j, q, d)
          BY <1>1, <1>3, <1>6, <3>1, <4>1 DEF Ahead
        <4> QED
          BY <2>2, <4>2
      <3>4. CASE y # x
        BY <2>2, <3>2, <3>4
      <3> QED
        BY <3>3, <3>4
    <2>4. \A j, d : j \in Keyword => (Leading(j, d)' <=> Leading(j, d))
      BY <1>10 DEF Leading
    <2>5. \A j \in Keyword, q \in Rival, d \in RankDays :
            Row(<<j, q>>, d)' => Row(<<j>>, d)' /\ ~P!Gone(q)'
      BY <1>1, <1>6, <1>10 DEF RankInv, Beside
    <2>6. \A j \in Keyword, d \in RankDays : Row(<<j>>, d)' => ~P!Gone(j)'
      BY <1>10 DEF RankInv, Beside
    <2> QED
      BY <1>7, <1>10, <2>3, <2>4, <2>5, <2>6 DEF Beside, Ahead
  <1> QED
    BY <1>3, <1>4, <1>5, <1>6, <1>7, <1>11, <1>12, RankWrites

LEMMA ChartIsWritten ==
    ASSUME Places, RankInv, NEW x \in Scanner, P!WriteChart(x) PROVE RankInv'
  <1> PICK v : v = scan[x]
    OBVIOUS
  <1>1. v.at = "position" /\ Scan(v) /\ Held(v)
    BY DEF P!WriteChart, RankInv, RankTypes
  <1>2. PICK c \in Chart : v.left = {c} /\ Right(<<c>>, v.today, v.prev[c])
    BY <1>1 DEF Held
  <1>3. P!Charted(x) = c
    BY <1>2 DEF P!Charted
  <1>4. PICK w : w = [v EXCEPT !.at = "chart", !.todo = v.todo \ {c}, !.left = {}, !.prev = <<>>]
    OBVIOUS
  <1>5. /\ w.at = "chart" /\ w.todo = v.todo \ {c} /\ w.today = v.today
        /\ Scan(w)
    BY <1>1, <1>4 DEF Scan
  <1>6. scan' = [scan EXCEPT ![x] = w]
    BY <1>3, <1>4 DEF P!WriteChart, P!ChartDone
  <1>7. PICK rank \in Position \union {P!Null} : P!Upsert(<<c>>, v.today, rank, v.prev[c])
    BY <1>3 DEF P!WriteChart
  <1>8. v.today \in 1 .. ofDay /\ v.todo \subseteq Chart /\ <<c>> \in P!Series
    BY <1>1, SeriesOf DEF Held
  <1>9. /\ ranking' = ranking /\ ofDay' = ofDay /\ followed' = followed /\ unread' = unread
        /\ unread \in [Keyword -> SUBSET Rival]
    BY DEF P!WriteChart, RankInv, RankTypes
  <1>10. \A t \in P!Series, e \in RankDays : t # <<c>> \/ e # v.today => ranks'[t][e] = ranks[t][e]
    BY <1>2, <1>7, <1>8, <1>9, RankUpserts
  <1>11. /\ \A j \in Keyword, r \in Rival, e \in RankDays : Row(<<j, r>>, e)' <=> Row(<<j, r>>, e)
         /\ \A j \in Keyword, e \in RankDays : Row(<<j>>, e)' <=> Row(<<j>>, e)
         /\ \A z : P!Gone(z)' <=> P!Gone(z)
    <2>1. /\ \A j \in Keyword, e \in RankDays : ranks'[<<j>>][e] = ranks[<<j>>][e]
          /\ \A j \in Keyword, r \in Rival, e \in RankDays : ranks'[<<j, r>>][e] = ranks[<<j, r>>][e]
      BY <1>10, SeriesOf
    <2> QED
      BY <1>9, <2>1 DEF Row, P!NoRow, P!Gone
  <1>12. Held(w)'
    BY <1>5, <1>8, <1>9 DEF Held
  <1>13. Beside'
    <2>1. scan = [y \in Scanner |-> scan[y]]
      BY DEF RankInv, RankTypes
    <2>2. \A y \in Scanner : y # x => scan'[y] = scan[y]
      BY <1>6, <2>1
    <2>3. \A j, r, d : ~Ahead(scan[x], j, r, d)
      BY <1>1 DEF Ahead
    <2>4. \A j \in Keyword, r \in Rival, d \in RankDays :
            (\E y \in Scanner : Ahead(scan[y], j, r, d)) => \E y \in Scanner : Ahead(scan'[y], j, r, d)
      BY <2>2, <2>3
    <2>5. \A j, d : j \in Keyword => (Leading(j, d)' <=> Leading(j, d))
      BY <1>11 DEF Leading
    <2> QED
      BY <1>9, <1>11, <2>4, <2>5 DEF RankInv, Beside, Ahead
  <1> QED
    BY <1>2, <1>5, <1>6, <1>7, <1>8, <1>9, <1>12, <1>13, RankWrites

-----------------------------------------------------------------------------
\* A keyword or competitor is added, tracked or not, or the day ends: what is gone stays gone.
LEMMA RankMembers ==
    ASSUME Places, RankInv, ofDay' \in RankDays, ofDay' >= ofDay,
           followed' \in [Keyword \union Rival -> {"none", "tracked", "untracked", "gone"}],
           \A z \in Keyword \union Rival : P!Gone(z)' <=> P!Gone(z),
           UNCHANGED <<ranking, ranks, scan, late, unread>>
    PROVE  RankInv'
  <1>1. /\ ranking' = ranking /\ ranks' = ranks /\ scan' = scan /\ late' = late /\ unread' = unread
        /\ ofDay \in Nat /\ ofDay' \in Nat
    BY DEF RankInv, RankTypes, RankDays
  <1>2. /\ \A t, e : Row(t, e)' <=> Row(t, e)
        /\ \A t, e, p : Right(t, e, p)' <=> Right(t, e, p)
    BY <1>1 DEF Row, P!NoRow, Right, P!Previous, P!Captured, P!Before, P!Null
  <1>3. RankTypes'
    BY <1>1 DEF RankInv, RankTypes, Scan, RankDays
  <1>4. ASSUME NEW y \in Scanner PROVE Held(scan[y])'
    <2>1. Held(scan[y]) /\ scan'[y] = scan[y]
      BY <1>1 DEF RankInv
    <2> QED
      BY <1>1, <1>2, <2>1, HeldKept
  <1>5. \A s \in P!Series, d \in RankDays : Row(s, d)' => d <= ofDay' /\ Right(s, d, ranks[s][d].prev)'
    <2>1. ASSUME NEW s \in P!Series, NEW d \in RankDays, Row(s, d)
          PROVE  d <= ofDay' /\ Right(s, d, ranks[s][d].prev)
      <3>1. d <= ofDay /\ Right(s, d, ranks[s][d].prev)
        BY <2>1 DEF RankInv
      <3> QED
        BY <1>1, <3>1 DEF RankDays
    <2>2. \A s, d : Right(s, d, ranks[s][d].prev)' <=> Right(s, d, ranks[s][d].prev)
      BY <1>1 DEF Right, P!Previous, P!Captured, P!Before, P!Null, P!NoRow
    <2> QED
      BY <1>2, <2>1, <2>2
  <1>6. Beside'
    BY <1>1, <1>2 DEF RankInv, Beside, Leading, Ahead, Row, P!NoRow
  <1> QED
    BY <1>3, <1>4, <1>5, <1>6 DEF RankInv

LEMMA RankAdds ==
    ASSUME Places, RankInv, NEW z \in Keyword \union Rival,
           P!Add(z) \/ \E isTracked \in BOOLEAN : P!SetTracked(z, isTracked)
    PROVE  RankInv'
  <1>1. followed \in [Keyword \union Rival -> {"none", "tracked", "untracked", "gone"}]
    BY DEF RankInv, RankTypes
  <1>2. PICK now \in {"tracked", "untracked"} : followed' = [followed EXCEPT ![z] = now]
    BY DEF P!Add, P!SetTracked
  <1>3. followed[z] # "gone"
    BY DEF P!Add, P!SetTracked
  <1>4. /\ followed' \in [Keyword \union Rival -> {"none", "tracked", "untracked", "gone"}]
        /\ \A y \in Keyword \union Rival : P!Gone(y)' <=> P!Gone(y)
    BY <1>1, <1>2, <1>3 DEF P!Gone
  <1>5. /\ ranking' = ranking /\ ofDay' = ofDay /\ ranks' = ranks /\ scan' = scan /\ late' = late
        /\ unread' = unread
    BY DEF P!Add, P!SetTracked
  <1>6. ofDay \in RankDays /\ ofDay \in Nat
    BY DEF RankInv, RankTypes, RankDays
  <1>7. ofDay' \in RankDays /\ ofDay' >= ofDay
    BY <1>5, <1>6
  <1> QED
    BY <1>4, <1>5, <1>7, RankMembers

LEMMA RankMidnight ==
    ASSUME Places, RankInv, P!Midnight PROVE RankInv'
  <1>1. /\ ofDay' = ofDay + 1 /\ ofDay < MaxDays
        /\ ranking' = ranking /\ followed' = followed /\ ranks' = ranks /\ scan' = scan /\ late' = late
        /\ unread' = unread
    BY DEF P!Midnight
  <1>2. ofDay' \in RankDays /\ ofDay' >= ofDay
    BY <1>1 DEF RankInv, RankTypes, RankDays, Places
  <1>3. followed' \in [Keyword \union Rival -> {"none", "tracked", "untracked", "gone"}]
    BY <1>1 DEF RankInv, RankTypes
  <1>4. \A z \in Keyword \union Rival : P!Gone(z)' <=> P!Gone(z)
    BY <1>1 DEF P!Gone
  <1> QED
    BY <1>1, <1>2, <1>3, <1>4, RankMembers

\* What is removed takes its rows with it.
LEMMA RankRemoves ==
    ASSUME Places, RankInv, NEW z \in Keyword \union Rival, P!Remove(z) PROVE RankInv'
  <1>1. /\ followed' = [followed EXCEPT ![z] = "gone"]
        /\ ranks' = [s \in P!Series |-> IF \E i \in DOMAIN s : s[i] = z
                                        THEN [d \in 1 .. MaxDays |-> P!NoRow] ELSE ranks[s]]
        /\ ranking' = ranking /\ ofDay' = ofDay /\ scan' = scan /\ late' = late /\ unread' = unread
    BY DEF P!Remove
  <1>2. /\ followed \in [Keyword \union Rival -> {"none", "tracked", "untracked", "gone"}]
        /\ ofDay \in Nat /\ ofDay \in RankDays
    BY DEF RankInv, RankTypes, RankDays
  <1>3. \A t \in P!Series : ranks'[t] = ranks[t] \/ \A e \in RankDays : ~Row(t, e)'
    BY <1>1 DEF Row, P!NoRow, RankDays
  <1>4. /\ \A k \in Keyword : k # z => ranks'[<<k>>] = ranks[<<k>>]
        /\ \A k \in Keyword, r \in Rival : k # z /\ r # z => ranks'[<<k, r>>] = ranks[<<k, r>>]
        /\ \A c \in Chart : ranks'[<<c>>] = ranks[<<c>>]
        /\ \A e \in RankDays : \A k \in Keyword : k = z => ~Row(<<k>>, e)'
        /\ \A e \in RankDays : \A k \in Keyword, r \in Rival : k = z \/ r = z => ~Row(<<k, r>>, e)'
    <2>1. \A k : DOMAIN <<k>> = {1} /\ <<k>>[1] = k
      OBVIOUS
    <2>2. \A k, r : DOMAIN <<k, r>> = {1, 2} /\ <<k, r>>[1] = k /\ <<k, r>>[2] = r
      OBVIOUS
    <2>3. /\ \A k : (\E i \in DOMAIN <<k>> : <<k>>[i] = z) <=> k = z
          /\ \A k, r : (\E i \in DOMAIN <<k, r>> : <<k, r>>[i] = z) <=> k = z \/ r = z
      BY <2>1, <2>2
    <2>4. \A c \in Chart : c # z
      BY DEF Places
    <2>5. \A k \in Keyword : ranks'[<<k>>] = IF k = z THEN [d \in 1 .. MaxDays |-> P!NoRow] ELSE ranks[<<k>>]
      BY <1>1, <2>3, SeriesOf
    <2>6. \A k \in Keyword, r \in Rival :
            ranks'[<<k, r>>] = IF k = z \/ r = z THEN [d \in 1 .. MaxDays |-> P!NoRow] ELSE ranks[<<k, r>>]
      <3> SUFFICES ASSUME NEW k \in Keyword, NEW r \in Rival
                   PROVE  ranks'[<<k, r>>] = IF k = z \/ r = z THEN [d \in 1 .. MaxDays |-> P!NoRow]
                                                             ELSE ranks[<<k, r>>]
        OBVIOUS
      <3> DEFINE s == <<k, r>>
      <3>1. s \in P!Series /\ ((\E i \in DOMAIN s : s[i] = z) <=> k = z \/ r = z)
        BY <2>3, SeriesOf
      <3> HIDE DEF s
      <3>2. ranks'[s] = IF k = z \/ r = z THEN [d \in 1 .. MaxDays |-> P!NoRow] ELSE ranks[s]
        BY <1>1, <3>1
      <3> QED
        BY <3>2 DEF s
    <2>7. \A c \in Chart : ranks'[<<c>>] = ranks[<<c>>]
      BY <1>1, <2>3, <2>4, SeriesOf
    <2> QED
      <3>1. \A e \in RankDays : [d \in 1 .. MaxDays |-> P!NoRow][e] = P!NoRow
        BY DEF RankDays
      <3>2. \A e \in RankDays : \A k \in Keyword : k = z => ~Row(<<k>>, e)'
        BY <2>5, <3>1 DEF Row, P!NoRow
      <3>3. \A e \in RankDays : \A k \in Keyword, r \in Rival : k = z \/ r = z => ~Row(<<k, r>>, e)'
        BY <2>6, <3>1 DEF Row, P!NoRow
      <3> QED
        BY <2>5, <2>6, <2>7, <3>2, <3>3
  <1>5. \A y \in Keyword \union Rival : P!Gone(y)' <=> P!Gone(y) \/ y = z
    BY <1>1, <1>2 DEF P!Gone
  <1>6. \A t \in P!Series, e \in RankDays : \A p : ranks'[t] = ranks[t] /\ Right(t, e, p) => Right(t, e, p)'
    BY <1>1, RightSame
  <1>7. RankTypes'
    <2>1. \A s \in P!Series : ranks[s] = [d \in RankDays |-> ranks[s][d]]
      BY DEF RankInv, RankTypes
    <2>2. ranks' = [s \in P!Series |-> [d \in RankDays |-> ranks'[s][d]]]
      BY <1>1, <2>1 DEF RankDays
    <2>3. followed' \in [Keyword \union Rival -> {"none", "tracked", "untracked", "gone"}]
      BY <1>1, <1>2
    <2> QED
      BY <1>1, <2>2, <2>3 DEF RankInv, RankTypes, Scan, RankDays
  <1>8. ASSUME NEW y \in Scanner PROVE Held(scan[y])'
    <2>1. \A e \in 1 .. ofDay : e \in RankDays
      BY <1>2 DEF RankDays, Places
    <2>2. /\ \A k \in Keyword, d \in 1 .. ofDay : Row(<<k>>, d) => Row(<<k>>, d)' \/ P!Gone(k)'
          /\ \A k \in Keyword, d \in 1 .. ofDay : \A p : Right(<<k>>, d, p) => Right(<<k>>, d, p)' \/ P!Gone(k)'
          /\ \A c \in Chart, d \in 1 .. ofDay : \A p : Right(<<c>>, d, p) => Right(<<c>>, d, p)'
          /\ \A k \in Keyword, r \in Rival, d \in 1 .. ofDay : \A p :
               Right(<<k, r>>, d, p) => Right(<<k, r>>, d, p)' \/ P!Gone(k)' \/ P!Gone(r)'
      <3>1. \A k \in Keyword, d \in 1 .. ofDay : Row(<<k>>, d) => Row(<<k>>, d)' \/ P!Gone(k)'
        BY <1>4, <1>5 DEF Row, P!NoRow
      <3>2. \A k \in Keyword, d \in 1 .. ofDay : \A p : Right(<<k>>, d, p) => Right(<<k>>, d, p)' \/ P!Gone(k)'
        BY <1>4, <1>5, <1>6, <2>1, SeriesOf
      <3>3. \A c \in Chart, d \in 1 .. ofDay : \A p : Right(<<c>>, d, p) => Right(<<c>>, d, p)'
        BY <1>4, <1>6, <2>1, SeriesOf
      <3>4. \A k \in Keyword, r \in Rival, d \in 1 .. ofDay : \A p :
               Right(<<k, r>>, d, p) => Right(<<k, r>>, d, p)' \/ P!Gone(k)' \/ P!Gone(r)'
        BY <1>4, <1>5, <1>6, <2>1, SeriesOf
      <3> QED
        BY <3>1, <3>2, <3>3, <3>4
    <2>3. /\ Held(scan[y]) /\ scan'[y] = scan[y] /\ ofDay' >= ofDay /\ ofDay' \in Nat
          /\ \A u \in Keyword \union Rival : P!Gone(u) => P!Gone(u)'
      BY <1>1, <1>2, <1>5 DEF RankInv
    <2> QED
      BY <1>2, <2>2, <2>3, HeldKept
  <1>9. \A s \in P!Series, d \in RankDays : Row(s, d)' => d <= ofDay' /\ Right(s, d, ranks[s][d].prev)'
    <2> SUFFICES ASSUME NEW s \in P!Series, NEW d \in RankDays, Row(s, d)'
                 PROVE  d <= ofDay' /\ Right(s, d, ranks[s][d].prev)'
      OBVIOUS
    <2>1. ranks'[s] = ranks[s] /\ Row(s, d)
      BY <1>3 DEF Row, P!NoRow
    <2>2. d <= ofDay /\ Right(s, d, ranks[s][d].prev)
      BY <2>1 DEF RankInv
    <2>3. \A p : Right(s, d, p) => Right(s, d, p)'
      BY <1>6, <2>1
    <2> QED
      BY <1>1, <2>1, <2>2, <2>3 DEF Right
  <1>10. Beside'
    <2>1. /\ \A k \in Keyword, d \in RankDays : Row(<<k>>, d)' => k # z
          /\ \A k \in Keyword, r \in Rival, d \in RankDays : Row(<<k, r>>, d)' => k # z /\ r # z
          /\ \A k \in Keyword : k # z => \A d \in RankDays : Row(<<k>>, d)' <=> Row(<<k>>, d)
          /\ \A k \in Keyword, r \in Rival : k # z /\ r # z =>
               \A d \in RankDays : Row(<<k, r>>, d)' <=> Row(<<k, r>>, d)
      BY <1>4 DEF Row, P!NoRow
    <2>2. \A k \in Keyword : k # z => \A d : Leading(k, d)' <=> Leading(k, d)
      BY <2>1 DEF Leading
    <2>3. \A k \in Keyword, r \in Rival, d \in RankDays :
            Row(<<k, r>>, d)' => Row(<<k>>, d)' /\ ~P!Gone(r)'
      BY <1>5, <2>1 DEF RankInv, Beside
    <2>4. \A k \in Keyword, d \in RankDays : Row(<<k>>, d)' => ~P!Gone(k)'
      BY <1>5, <2>1 DEF RankInv, Beside
    <2>5. ASSUME NEW k \in Keyword, NEW d \in RankDays, NEW r \in Rival \ unread[k], Row(<<k>>, d)',
                 Leading(k, d)', ~P!Gone(r)'
          PROVE  Row(<<k, r>>, d)' \/ \E y \in Scanner : Ahead(scan[y], k, r, d)
      BY <1>5, <2>1, <2>2, <2>5 DEF RankInv, Beside
    <2> QED
      BY <1>1, <2>3, <2>4, <2>5 DEF Beside, Ahead
  <1> QED
    BY <1>7, <1>8, <1>9, <1>10 DEF RankInv

-----------------------------------------------------------------------------

LEMMA RankNext ==
    ASSUME Places, RankInv, [P!Next]_P!vars PROVE RankInv'
  <1>1. CASE UNCHANGED P!vars
    <2>1. /\ ranking' = ranking /\ ofDay' = ofDay /\ followed' = followed /\ ranks' = ranks
          /\ scan' = scan /\ late' = late /\ unread' = unread
      BY <1>1 DEF P!vars
    <2>2. ofDay' \in RankDays /\ ofDay' >= ofDay
      BY <2>1 DEF RankInv, RankTypes, RankDays
    <2>3. followed' \in [Keyword \union Rival -> {"none", "tracked", "untracked", "gone"}]
      BY <2>1 DEF RankInv, RankTypes
    <2>4. \A z \in Keyword \union Rival : P!Gone(z)' <=> P!Gone(z)
      BY <2>1 DEF P!Gone
    <2> QED
      BY <2>1, <2>2, <2>3, <2>4, RankMembers
  <1>2. ASSUME NEW x \in Scanner, P!ForeignKey(x) \/ P!Fail(x) PROVE RankInv'
    <2>1. P!Ends(x) /\ UNCHANGED <<ranking, ofDay, followed, ranks, late>>
      BY <1>2 DEF P!ForeignKey, P!Fail
    <2> QED
      BY <2>1, RankEnds
  <1>3. CASE P!Next
    BY <1>2, <1>3, RankBegins, RankSearches, RankOwn, RankBeside, RankGoesOn, RankFinishes,
       ChartsBegin, ChartIsRead, ChartIsWritten, ChartIsSkipped, RankAdds, RankRemoves, RankMidnight
       DEF P!Next
  <1> QED
    BY <1>1, <1>3

\* RanksComparable of SearchRanks: the movement shown is one between a row and the row before
\* it (aso.ts, syncRanks and syncChartRanks), and the ranks competitorRanks puts side by side
\* are of one day, for any number of runs, changes and failures.
THEOREM RanksCompare ==
    ASSUME Places PROVE P!Spec => [](P!RanksComparable /\ RanksComparable)
  <1>1. ASSUME RankInv PROVE P!PrevTrue
    <2> SUFFICES ASSUME NEW s \in P!Series, NEW d \in 1 .. MaxDays, ranks[s][d] # P!NoRow,
                        ~\E e \in 1 .. d - 1 : <<s, e>> \in late
                 PROVE  ranks[s][d].prev = P!Previous(s, d)
      BY DEF P!PrevTrue
    <2> QED
      BY <1>1 DEF RankInv, Row, Right, RankDays
  <1>2. ASSUME RankInv PROVE P!SameDay
    <2> SUFFICES ASSUME \A x \in Scanner : scan[x] = P!Idle, NEW k \in Keyword,
                        NEW r \in Rival \ unread[k], P!Captured(<<k, r>>) # {}
                 PROVE  P!Newest(<<k, r>>) = P!Newest(<<k>>)
      BY DEF P!SameDay
    <2>1. \A x \in Scanner : \A d : ~Ahead(scan[x], k, r, d)
      BY DEF P!Idle, Ahead
    <2>2. /\ \A d : d \in P!Captured(<<k>>) <=> d \in RankDays /\ Row(<<k>>, d)
          /\ \A d : d \in P!Captured(<<k, r>>) <=> d \in RankDays /\ Row(<<k, r>>, d)
      BY DEF P!Captured, RankDays, Row
    <2>3. P!Captured(<<k, r>>) \subseteq P!Captured(<<k>>)
      BY <1>2, <2>2 DEF RankInv, Beside
    <2>4. /\ MaxDays \in Nat /\ P!Captured(<<k>>) \subseteq 1 .. MaxDays /\ P!Captured(<<k>>) # {}
          /\ P!Captured(<<k, r>>) \subseteq 1 .. MaxDays
      BY <2>3 DEF P!Captured, Places
    <2> DEFINE m == P!Newest(<<k>>)
               n == P!Newest(<<k, r>>)
    <2>5. /\ m \in P!Captured(<<k>>) /\ \A e \in P!Captured(<<k>>) : e <= m
          /\ n \in P!Captured(<<k, r>>) /\ \A e \in P!Captured(<<k, r>>) : e <= n
      BY <2>4, LastOf DEF P!Newest
    <2>6. m \in RankDays /\ Row(<<k>>, m) /\ Leading(k, m)
      BY <2>2, <2>5 DEF Leading
    <2>7. ~P!Gone(r)
      BY <1>2, <2>2, <2>5 DEF RankInv, Beside
    <2>8. Row(<<k, r>>, m)
      BY <1>2, <2>1, <2>6, <2>7 DEF RankInv, Beside
    <2>9. m <= n /\ n <= m /\ m \in Int /\ n \in Int
      BY <2>2, <2>3, <2>4, <2>5, <2>6, <2>8
    <2> QED
      BY <2>9
  <1>3. RankInv => P!RanksComparable
    BY <1>1, <1>2 DEF P!RanksComparable
  <1>4. P!Init => RankInv
    BY RankInit
  <1>5. RankInv /\ [P!Next]_P!vars => RankInv'
    BY RankNext
  <1>6. P!RanksComparable => RanksComparable
    BY DEF RanksComparable
  <1> QED
    BY <1>6, <1>3, <1>4, <1>5, PTL DEF P!Spec
==============================================================================
