------------------------------ MODULE PageProofs ------------------------------
(***************************************************************************)
(* The page of the console, for every incident file that is accepted, every *)
(* link and every interleaving of the operator, the timers and the replies:*)
(* what the rail is at, what the address says, and whose answer is on the  *)
(* screen when the page has come to rest.                                  *)
(***************************************************************************)
EXTENDS Page, FiniteSetTheorems, SequenceTheorems, WellFoundedInduction, TLAPS

-----------------------------------------------------------------------------
(* Least and greatest.                                                     *)

\* A set of numbers has a least element.
LEMMA LeastNumber ==
    ASSUME NEW S, S \subseteq Nat, S # {}
    PROVE  Min(S) \in S /\ \A t \in S : Min(S) <= t
<1> DEFINE R == {p \in Nat \X Nat : p[1] < p[2]}
<1>1. R = OpToRel(<, Nat)
  BY DEF OpToRel
<1>2. PICK x \in S : \A y \in S : ~(<<y, x>> \in R)
  BY <1>1, NatLessThanWellFounded, WFMin
<1>3. ASSUME NEW y \in S PROVE x <= y
  <2>1. x \in Nat /\ y \in Nat
    OBVIOUS
  <2>2. <<y, x>> \in R <=> y < x
    BY <2>1
  <2> QED
    BY <1>2, <2>1, <2>2
<1> QED
  BY <1>3 DEF Min

\* So has a set of numbers that is bounded a greatest.
LEMMA GreatestNumber ==
    ASSUME NEW S, S \subseteq Nat, S # {}, NEW b \in Nat, \A t \in S : t <= b
    PROVE  Max(S) \in S /\ \A t \in S : t <= Max(S)
<1> DEFINE D == {b - t : t \in S}
<1>1. D \subseteq Nat /\ D # {}
  <2>1. \A t \in S : b - t \in Nat
    OBVIOUS
  <2>2. PICK s \in S : TRUE
    OBVIOUS
  <2>3. b - s \in D
    OBVIOUS
  <2> QED
    BY <2>1, <2>3
<1>2. Min(D) \in D /\ \A d \in D : Min(D) <= d
  BY <1>1, LeastNumber
<1>3. PICK m \in S : Min(D) = b - m
  BY <1>2
<1>4. \A t \in S : m >= t
  <2>1. ASSUME NEW t \in S PROVE m >= t
    <3>1. b - m <= b - t
      BY <1>2, <1>3
    <3> QED
      BY <3>1
  <2> QED
    BY <2>1
<1> HIDE DEF D
<1> QED
  BY <1>4 DEF Max

\* What is read of the members of a finite set is bounded: a smallest set of
\* members of which it is not would have none.
LEMMA FiniteIsBounded ==
    ASSUME NEW V, IsFiniteSet(V), NEW h \in [V -> Nat]
    PROVE  \E b \in Nat : \A v \in V : h[v] <= b
<1> DEFINE Under(T) == \E b \in Nat : \A v \in T : h[v] <= b
           Bad == {T \in SUBSET V : ~Under(T)}
           C == {Cardinality(T) : T \in Bad}
<1> SUFFICES ASSUME V \in Bad PROVE FALSE
  OBVIOUS
<1>1. \A T \in Bad : IsFiniteSet(T) /\ Cardinality(T) \in Nat
  BY FS_Subset, FS_CardinalityType
<1>2. C \subseteq Nat /\ C # {}
  BY <1>1
<1> HIDE DEF C
<1>3. Min(C) \in C /\ \A n \in C : Min(C) <= n
  BY <1>2, LeastNumber
<1>4. PICK T \in Bad : Min(C) = Cardinality(T)
  BY <1>3 DEF C
<1>5. T # {}
  <2>1. Under({})
    OBVIOUS
  <2> QED
    BY <2>1
<1>6. PICK x \in T : TRUE
  BY <1>5
<1>7. Cardinality(T \ {x}) = Cardinality(T) - 1 /\ Cardinality(T) \in Nat
  BY <1>1, <1>6, FS_RemoveElement
<1>8. Under(T \ {x})
  <2>1. T \ {x} \in Bad => Cardinality(T \ {x}) \in C
    BY DEF C
  <2>2. T \ {x} \notin Bad
    BY <1>3, <1>4, <1>7, <2>1
  <2> QED
    BY <2>2
<1>9. PICK b \in Nat : \A v \in T \ {x} : h[v] <= b
  BY <1>8
<1>10. h[x] \in Nat /\ \A v \in T : h[v] \in Nat
  BY <1>6
<1> DEFINE top == IF h[x] <= b THEN b ELSE h[x]
<1>11. top \in Nat /\ \A v \in T : h[v] <= top
  BY <1>9, <1>10
<1> QED
  BY <1>11

\* clamp gives an instant of the stretch, and leaves one alone that is in it.
LEMMA Clamped ==
    ASSUME NEW t \in Int, NEW domain, domain.start \in Int, domain.end \in Int,
           domain.start <= domain.end
    PROVE  LET c == Clamp(t, domain)
           IN  /\ c \in Int /\ domain.start <= c /\ c <= domain.end
               /\ domain.start <= t /\ t <= domain.end => c = t
<1>1. Max({t, domain.start}) = IF t >= domain.start THEN t ELSE domain.start
  BY DEF Max
<1> DEFINE m == Max({t, domain.start})
<1>2. m \in Int /\ domain.start <= m /\ (domain.start <= t => m = t)
  BY <1>1
<1> HIDE DEF m
<1>3. Min({m, domain.end}) = IF m <= domain.end THEN m ELSE domain.end
  BY <1>2 DEF Min
<1> QED
  BY <1>2, <1>3 DEF Clamp, m

-----------------------------------------------------------------------------
(* An incident file.                                                       *)

Readable(f) == f \in Files /\ Accepted(f)

Instants(f) == {f.window.start, f.window.end, f.disclosed} \union Published(f) \union Remedied(f)

\* The instants of a file are bounded, and it has versions.
LEMMA InstantsBounded ==
    ASSUME NEW f, Readable(f)
    PROVE  /\ Instants(f) \subseteq Nat
           /\ Published(f) # {} /\ ByPackage(f) # {} /\ ByPackage(f) \subseteq Nat \ {Unstated}
           /\ \E b \in Nat : \A t \in Instants(f) : t <= b
<1> USE DEF Readable
<1>1. /\ IsFiniteSet(f.versions) /\ f.versions # {}
      /\ f.window.start \in Nat /\ f.window.end \in Nat /\ f.disclosed \in Nat
      /\ \A v \in f.versions : /\ v.package \in Nat \ {Unstated}
                               /\ v.published \in Nat /\ v.remedied \in Nat
  BY PageAssumption DEF Accepted
<1> DEFINE h == [v \in f.versions |-> v.published]
           g == [v \in f.versions |-> v.remedied]
<1>2. PICK p \in Nat : \A v \in f.versions : v.published <= p
  <2>1. h \in [f.versions -> Nat]
    BY <1>1
  <2>2. \E p \in Nat : \A v \in f.versions : h[v] <= p
    BY <1>1, <2>1, FiniteIsBounded
  <2> QED
    BY <2>2
<1>3. PICK r \in Nat : \A v \in f.versions : v.remedied <= r
  <2>1. g \in [f.versions -> Nat]
    BY <1>1
  <2>2. \E r \in Nat : \A v \in f.versions : g[v] <= r
    BY <1>1, <2>1, FiniteIsBounded
  <2> QED
    BY <2>2
<1> DEFINE b == p + r + f.window.start + f.window.end + f.disclosed
<1>4. Instants(f) \subseteq Nat
  BY <1>1 DEF Instants, Published, Remedied
<1>5. ASSUME NEW t \in Instants(f) PROVE t <= b
  <2>1. CASE t \in {f.window.start, f.window.end, f.disclosed}
    BY <1>1, <1>2, <1>3, <2>1
  <2>2. CASE t \in Published(f)
    <3>1. t <= p /\ t \in Nat
      BY <1>1, <1>2, <2>2 DEF Published
    <3> QED
      BY <1>1, <1>2, <1>3, <3>1
  <2>3. CASE t \in Remedied(f)
    <3>1. t <= r /\ t \in Nat
      BY <1>1, <1>3, <2>3 DEF Remedied
    <3> QED
      BY <1>1, <1>2, <1>3, <3>1
  <2> QED
    BY <2>1, <2>2, <2>3 DEF Instants
<1>6. b \in Nat
  BY <1>1, <1>2, <1>3
<1> HIDE DEF b
<1> QED
  BY <1>1, <1>4, <1>5, <1>6 DEF Published, ByPackage

\* A set of instants of a file has a first and a last.
LEMMA FirstAndLast ==
    ASSUME NEW f, Readable(f), NEW S, S \subseteq Instants(f), S # {}
    PROVE  /\ Min(S) \in S /\ Max(S) \in S
           /\ \A t \in S : Min(S) <= t /\ t <= Max(S)
<1>1. PICK b \in Nat : \A t \in Instants(f) : t <= b
  BY InstantsBounded
<1>2. S \subseteq Nat /\ \A t \in S : t <= b
  BY <1>1, InstantsBounded
<1> QED
  BY <1>2, LeastNumber, GreatestNumber

\* What is marked on the rail are instants of the file.
LEMMA MarkersAreInstants ==
    ASSUME NEW f, Readable(f)
    PROVE  /\ Markers(f) \subseteq Instants(f) /\ Events(f) \subseteq Instants(f)
           /\ Events(f) # {}
<1> DEFINE wave1 == {v.published : v \in {u \in f.versions : u.wave = 1}}
           named == {v.published : v \in {u \in f.versions : u.package \in Range(f.featured)}}
           burst == IF wave1 # {} /\ Max(wave1) > Min(Published(f)) THEN {Max(wave1)} ELSE {}
           fixes == IF Remedied(f) = {} THEN {} ELSE {Min(Remedied(f)), Max(Remedied(f))}
<1>1. wave1 \subseteq Published(f) /\ named \subseteq Published(f)
  BY DEF Published
<1>2. Published(f) \subseteq Instants(f) /\ Remedied(f) \subseteq Instants(f)
  BY DEF Instants
<1>3. Min(Published(f)) \in Instants(f)
  BY <1>2, InstantsBounded, FirstAndLast
<1>4. burst \subseteq Instants(f)
  <2>1. wave1 # {} => Max(wave1) \in wave1
    BY <1>1, <1>2, FirstAndLast
  <2> HIDE DEF wave1
  <2> QED
    BY <1>1, <1>2, <2>1
<1>5. fixes \subseteq Instants(f)
  <2>1. Remedied(f) # {} => Min(Remedied(f)) \in Remedied(f) /\ Max(Remedied(f)) \in Remedied(f)
    BY <1>2, FirstAndLast
  <2> QED
    BY <1>2, <2>1
<1>6. Markers(f) = {Min(Published(f))} \union named \union burst \union fixes
                        \union ({f.disclosed} \ {Unstated})
  BY DEF Markers
<1> HIDE DEF named, burst, fixes
<1>7. Markers(f) \subseteq Instants(f)
  BY <1>1, <1>2, <1>3, <1>4, <1>5, <1>6 DEF Instants
<1> QED
  BY <1>7 DEF Events, Instants

\* Midnights.
LEMMA Midnights ==
    ASSUME NEW t \in Nat
    PROVE  /\ MidnightAtOrBefore(t) \in Nat /\ MidnightAtOrBefore(t) <= t
           /\ MidnightAtOrAfter(t) \in Nat /\ t <= MidnightAtOrAfter(t)
<1>1. Day \in Nat /\ Day > 0
  BY DayAssumption
<1>2. /\ MidnightAtOrBefore(t) \in Nat /\ MidnightAtOrBefore(t) <= t
      /\ t < MidnightAtOrBefore(t) + Day
  BY <1>1 DEF MidnightAtOrBefore
<1> QED
  BY <1>1, <1>2 DEF MidnightAtOrAfter

\* The stretch of a file holds its window and everything that is marked, and a
\* derived one begins before the window opens.
LEMMA DomainHoldsAll ==
    ASSUME NEW f, Readable(f)
    PROVE  /\ Domain(f).start \in Int /\ Domain(f).end \in Int
           /\ Domain(f).start <= Domain(f).end
           /\ \A t \in Events(f) : Domain(f).start <= t /\ t <= Domain(f).end
           /\ ~IsDeclared(f) => Domain(f).start < f.window.start
<1> DEFINE E == Events(f)
<1>1. E \subseteq Instants(f) /\ E # {} /\ E \subseteq Nat /\ Day \in Nat /\ Day > 0
      /\ f.window.start \in E
  BY MarkersAreInstants, InstantsBounded, DayAssumption DEF Events
<1>2. CASE IsDeclared(f)
  <2>1. Domain(f) = f.domain /\ f.domain.start \in Nat /\ f.domain.end \in Nat
    BY <1>2, PageAssumption DEF Domain, Readable
  <2>2. /\ f.domain.start < f.domain.end
        /\ f.domain.start <= Min(E) /\ Max(E) <= f.domain.end
    BY <1>2 DEF Readable, Accepted, IsDeclaredWhole
  <2>3. Min(E) \in E /\ Max(E) \in E /\ \A t \in E : Min(E) <= t /\ t <= Max(E)
    BY <1>1, FirstAndLast
  <2> HIDE DEF E
  <2>4. ASSUME NEW t \in E PROVE f.domain.start <= t /\ t <= f.domain.end
    <3>1. t \in Nat /\ Min(E) \in Nat /\ Max(E) \in Nat /\ Min(E) <= t /\ t <= Max(E)
      BY <1>1, <2>3
    <3> QED
      BY <2>1, <2>2, <3>1
  <2> QED
    BY <1>2, <2>1, <2>2, <2>4 DEF E
<1>3. CASE ~IsDeclared(f)
  <2> DEFINE floors == {MidnightAtOrBefore(t) : t \in E}
             midnight == Min(floors)
             start == IF midnight = f.window.start THEN midnight - Day ELSE midnight
             ceilings == {MidnightAtOrAfter(t) : t \in E} \union {start + Day}
  <2>1. Domain(f) = [start |-> start, end |-> Max(ceilings)]
    BY <1>3 DEF Domain
  <2>2. floors \subseteq Nat /\ floors # {}
    BY <1>1, Midnights
  <2>3. midnight \in Nat /\ \A t \in E : midnight <= MidnightAtOrBefore(t)
    BY <2>2, LeastNumber
  <2> HIDE DEF midnight
  <2>4. \A t \in E : midnight <= t
    <3>1. ASSUME NEW t \in E PROVE midnight <= t
      <4>1. t \in Nat /\ MidnightAtOrBefore(t) \in Nat /\ MidnightAtOrBefore(t) <= t
        BY <1>1, Midnights
      <4> QED
        BY <2>3, <4>1
    <3> QED
      BY <3>1
  <2>5. start \in Int /\ start + Day \in Nat /\ start <= midnight /\ start < f.window.start
    BY <1>1, <2>3, <2>4
  <2> HIDE DEF start
  <2>6. PICK b \in Nat : \A t \in Instants(f) : t <= b
    BY InstantsBounded
  <2>7. \A u \in ceilings : u \in Nat /\ u <= b + Day + start + Day
    <3>1. ASSUME NEW t \in E
          PROVE  /\ MidnightAtOrAfter(t) \in Nat
                 /\ MidnightAtOrAfter(t) <= b + Day
      <4>1. t \in Nat /\ t <= b
        BY <1>1, <2>6
      <4>2. MidnightAtOrBefore(t) \in Nat /\ MidnightAtOrBefore(t) <= t /\ MidnightAtOrAfter(t) \in Nat
        BY <4>1, Midnights
      <4> QED
        BY <1>1, <4>1, <4>2 DEF MidnightAtOrAfter
    <3>2. ASSUME NEW t \in E PROVE MidnightAtOrAfter(t) <= b + Day + start + Day
      <4> DEFINE m == MidnightAtOrAfter(t)
      <4>1. m \in Nat /\ m <= b + Day /\ start + Day \in Nat
        BY <2>5, <3>1
      <4> HIDE DEF m
      <4>2. m <= b + Day + start + Day
        BY <1>1, <2>5, <4>1
      <4> QED
        BY <4>2 DEF m
    <3>3. start + Day \in Nat /\ start + Day <= b + Day + start + Day
      BY <1>1, <2>5
    <3> QED
      BY <3>1, <3>2, <3>3
  <2>8. ceilings \subseteq Nat /\ ceilings # {} /\ b + Day + start + Day \in Nat
    BY <1>1, <2>5, <2>7
  <2>9. Max(ceilings) \in ceilings /\ \A u \in ceilings : u <= Max(ceilings)
    BY <2>7, <2>8, GreatestNumber
  <2>10. /\ Max(ceilings) \in Nat /\ start + Day <= Max(ceilings)
         /\ \A t \in E : MidnightAtOrAfter(t) <= Max(ceilings)
    BY <2>8, <2>9
  <2> HIDE DEF ceilings
  <2>11. ASSUME NEW t \in E PROVE start <= t /\ t <= Max(ceilings)
    <3>1. t \in Nat /\ MidnightAtOrAfter(t) \in Nat /\ t <= MidnightAtOrAfter(t)
      BY <1>1, Midnights
    <3> QED
      BY <2>3, <2>4, <2>5, <2>10, <3>1
  <2>12. start <= Max(ceilings)
    BY <1>1, <2>5, <2>10
  <2> HIDE DEF E
  <2> QED
    BY <2>1, <2>5, <2>10, <2>11, <2>12 DEF E
<1> QED
  BY <1>2, <1>3

-----------------------------------------------------------------------------
(* The rail.                                                               *)

Addresses == [package : Nat, at : Int, how : {"none", "read", "garbled"}]

Views == [package : Nat, at : Int, zoom : {"day", "window"},
          notice : SUBSET {"package", "unreadable", "outside"},
          entries : Seq(Addresses), here : Nat]

\* A view whose address is one of the history entries.
Standing(v) == v \in Views /\ v.here \in DOMAIN v.entries

Within(f, v) == Travel(f, v.zoom).start <= v.at /\ v.at <= Travel(f, v.zoom).end

\* w is v with its address replaced by its question.
Replaced(v, w) ==
    /\ Standing(w) /\ w.here = v.here
    /\ w.entries = [v.entries EXCEPT ![v.here] = Link(w.package, w.at)]

\* The slider covers a stretch, and the window is inside it.
LEMMA TravelHoldsWindow ==
    ASSUME NEW f, Readable(f), NEW zoom \in {"day", "window"}
    PROVE  LET travel == Travel(f, zoom)
           IN  /\ travel.start \in Int /\ travel.end \in Int /\ travel.start <= travel.end
               /\ travel.start <= f.window.start /\ f.window.end <= travel.end
               /\ f.window.start \in Nat /\ f.window.end \in Nat /\ f.window.start < f.window.end
<1>1. f.window.start \in Nat /\ f.window.end \in Nat /\ f.window.start < f.window.end
  BY PageAssumption DEF Readable, Accepted
<1>2. Before \in Nat /\ After \in Nat
  BY RailAssumption
<1>3. CASE zoom = "window"
  <2>1. Travel(f, zoom).start = f.window.start - Before /\ Travel(f, zoom).end = f.window.end + After
    BY <1>3 DEF Travel
  <2> QED
    BY <1>1, <1>2, <2>1
<1>4. CASE zoom # "window"
  <2>1. Travel(f, zoom) = Domain(f)
    BY <1>4 DEF Travel
  <2>2. f.window.start \in Events(f) /\ f.window.end \in Events(f)
    BY DEF Events
  <2> QED
    BY <1>1, <2>1, <2>2, DomainHoldsAll
<1> QED
  BY <1>3, <1>4

LEMMA LinkIsAddress ==
    ASSUME NEW package \in Nat, NEW at \in Int
    PROVE  Link(package, at) \in Addresses
BY DEF Link, Addresses

LEMMA WriteUrlReplaces ==
    ASSUME NEW v, Standing(v)
    PROVE  LET w == WriteUrl(v, FALSE)
           IN  /\ Replaced(v, w) /\ w.package = v.package /\ w.at = v.at
               /\ w.zoom = v.zoom /\ w.notice = v.notice
<1> DEFINE e == [v.entries EXCEPT ![v.here] = Link(v.package, v.at)]
           w == WriteUrl(v, FALSE)
<1>1. w = [v EXCEPT !.entries[v.here] = Link(v.package, v.at)]
  BY DEF WriteUrl
<1>2. v \in Views /\ v.entries \in Seq(Addresses) /\ v.here \in DOMAIN v.entries
  BY DEF Standing, Views
<1>3. Link(v.package, v.at) \in Addresses
  BY <1>2, LinkIsAddress DEF Views
<1>4. e \in Seq(Addresses) /\ DOMAIN e = DOMAIN v.entries
  BY <1>2, <1>3, ExceptSeq
<1>5. w = [v EXCEPT !.entries = e]
  BY <1>1, <1>2 DEF Views
<1> HIDE DEF e
<1>6. /\ w \in Views /\ w.entries = e /\ w.package = v.package /\ w.at = v.at
      /\ w.zoom = v.zoom /\ w.notice = v.notice /\ w.here = v.here
  BY <1>2, <1>4, <1>5 DEF Views
<1> HIDE DEF w
<1>7. Replaced(v, w)
  BY <1>2, <1>4, <1>6 DEF Replaced, Standing, e
<1> QED
  BY <1>6, <1>7 DEF w

LEMMA SetInstantHolds ==
    ASSUME NEW v, Standing(v), NEW t \in Int
    PROVE  LET w == SetInstant(v, t)
           IN  /\ Replaced(v, w) /\ w.package = v.package /\ w.at = t
               /\ w.zoom = v.zoom /\ w.notice = {}
<1> DEFINE u == ClearLinkNotice([v EXCEPT !.at = t])
<1>1. /\ Standing(u) /\ u.package = v.package /\ u.at = t /\ u.zoom = v.zoom
      /\ u.notice = {} /\ u.here = v.here /\ u.entries = v.entries
  BY DEF ClearLinkNotice, Standing, Views
<1> DEFINE w == WriteUrl(u, FALSE)
<1>2. SetInstant(v, t) = w
  BY DEF SetInstant
<1> HIDE DEF u
<1>3. /\ Replaced(u, w) /\ w.package = u.package /\ w.at = u.at
      /\ w.zoom = u.zoom /\ w.notice = u.notice
  BY <1>1, WriteUrlReplaces
<1> HIDE DEF w
<1>4. Replaced(v, w)
  BY <1>1, <1>3 DEF Replaced
<1> QED
  BY <1>1, <1>2, <1>3, <1>4

LEMMA SetDomainHolds ==
    ASSUME NEW f, Readable(f), NEW v, Standing(v), NEW zoom \in {"day", "window"}
    PROVE  LET w == SetDomain(f, v, zoom)
           IN  /\ Replaced(v, w) /\ w.package = v.package /\ w.zoom = zoom /\ w.notice = {}
               /\ Within(f, w)
               /\ Travel(f, zoom).start <= v.at /\ v.at <= Travel(f, zoom).end => w.at = v.at
<1> DEFINE u == [v EXCEPT !.zoom = zoom]
           t == Clamp(v.at, Travel(f, zoom))
<1>1. /\ Standing(u) /\ u.package = v.package /\ u.zoom = zoom
      /\ u.here = v.here /\ u.entries = v.entries /\ v.at \in Int
  BY DEF Standing, Views
<1>2. /\ t \in Int /\ Travel(f, zoom).start <= t /\ t <= Travel(f, zoom).end
      /\ Travel(f, zoom).start <= v.at /\ v.at <= Travel(f, zoom).end => t = v.at
  BY <1>1, TravelHoldsWindow, Clamped
<1>3. SetDomain(f, v, zoom) = SetInstant(u, t)
  BY DEF SetDomain
<1> HIDE DEF u, t
<1> QED
  BY <1>1, <1>2, <1>3, SetInstantHolds DEF Replaced, Within

\* A second replacement stands for both.
LEMMA ReplacedTwice ==
    ASSUME NEW u, NEW v, NEW w, Standing(u), Replaced(u, v), Replaced(v, w)
    PROVE  Replaced(u, w)
BY DEF Replaced, Standing, Views

LEMMA GoToHolds ==
    ASSUME NEW f, Readable(f), NEW v, Standing(v), NEW t \in Markers(f)
    PROVE  LET w == GoTo(f, v, t)
           IN  Replaced(v, w) /\ w.package = v.package /\ Within(f, w)
<1> DEFINE travel == Travel(f, v.zoom)
           there == IF t < travel.start \/ t > travel.end THEN SetDomain(f, v, "day") ELSE v
<1>1. GoTo(f, v, t) = SetInstant(there, t)
  BY DEF GoTo
<1>2. t \in Int /\ v.zoom \in {"day", "window"} /\ t \in Events(f)
  BY MarkersAreInstants, InstantsBounded DEF Standing, Views, Events
<1>3. travel.start \in Int /\ travel.end \in Int
  BY <1>2, TravelHoldsWindow
<1>4. CASE t < travel.start \/ t > travel.end
  <2>1. Replaced(v, there) /\ there.package = v.package /\ there.zoom = "day"
    BY <1>4, SetDomainHolds
  <2>2. Travel(f, "day") = Domain(f)
    BY DEF Travel
  <2>3. Domain(f).start <= t /\ t <= Domain(f).end
    BY <1>2, DomainHoldsAll
  <2> HIDE DEF there
  <2>4. Standing(there)
    BY <2>1 DEF Replaced
  <2> DEFINE w == SetInstant(there, t)
  <2>5. Replaced(there, w) /\ w.package = v.package /\ w.at = t /\ w.zoom = "day"
    BY <1>2, <2>1, <2>4, SetInstantHolds
  <2> HIDE DEF w
  <2>6. Within(f, w)
    BY <2>2, <2>3, <2>5 DEF Within
  <2>7. Replaced(v, w)
    BY <2>1, <2>5, ReplacedTwice
  <2> QED
    BY <1>1, <2>5, <2>6, <2>7 DEF w
<1>5. CASE ~(t < travel.start \/ t > travel.end)
  <2>1. there = v
    BY <1>5
  <2>2. travel.start <= t /\ t <= travel.end
    BY <1>2, <1>3, <1>5
  <2> HIDE DEF there
  <2> QED
    BY <1>1, <1>2, <2>1, <2>2, SetInstantHolds DEF Within
<1> QED
  BY <1>4, <1>5

\* A link, or an entry of the history, taken over a view.
LEMMA ApplyViewHolds ==
    ASSUME NEW f, Readable(f), NEW v, Standing(v), NEW link \in Addresses
    PROVE  LET w == ApplyView(f, v, link)
           IN  /\ Replaced(v, w) /\ Within(f, w) /\ w.zoom = v.zoom
               /\ w.package = IF link.package \in ByPackage(f) THEN link.package ELSE v.package
               /\ link.package \in {w.package, Unstated} \/ "package" \in w.notice
               /\ link.how = "read" => link.at = w.at \/ "outside" \in w.notice
               /\ link.how = "garbled" => "unreadable" \in w.notice
               /\ link.how # "read" /\ Within(f, v) => w.at = v.at
<1> DEFINE u == Asking(f, v, link)
           d == SetDomain(f, u, v.zoom)
           w == ApplyView(f, v, link)
           n == (IF link.package # Unstated /\ link.package \notin ByPackage(f) THEN {"package"} ELSE {})
                \union (IF link.how = "garbled" THEN {"unreadable"}
                        ELSE IF link.how = "read" /\ link.at # d.at THEN {"outside"} ELSE {})
<1>1. /\ Standing(u) /\ u.here = v.here /\ u.entries = v.entries /\ u.zoom = v.zoom
      /\ u.package = (IF link.package \in ByPackage(f) THEN link.package ELSE v.package)
      /\ u.at = (IF link.how = "read" THEN link.at ELSE v.at)
  BY DEF Asking, Standing, Views, Addresses
<1>2. v.zoom \in {"day", "window"}
  BY DEF Standing, Views
<1> HIDE DEF u
<1>3. /\ Replaced(u, d) /\ d.package = u.package /\ d.zoom = v.zoom /\ Within(f, d)
      /\ Travel(f, v.zoom).start <= u.at /\ u.at <= Travel(f, v.zoom).end => d.at = u.at
  BY <1>1, <1>2, SetDomainHolds
<1>4. w = [d EXCEPT !.notice = n]
  BY DEF ApplyView, NoteLink, u
<1> HIDE DEF d
<1>5. n \subseteq {"package", "unreadable", "outside"}
  OBVIOUS
<1>6. /\ link.package \notin ByPackage(f) /\ link.package # Unstated => "package" \in n
      /\ link.how = "read" /\ link.at # d.at => "outside" \in n
      /\ link.how = "garbled" => "unreadable" \in n
  OBVIOUS
<1> HIDE DEF n
<1>7. d \in Views /\ d.here \in DOMAIN d.entries
  BY <1>3 DEF Replaced, Standing
<1>8. /\ w \in Views /\ w.notice = n /\ w.package = d.package /\ w.at = d.at /\ w.zoom = d.zoom
      /\ w.here = d.here /\ w.entries = d.entries
  BY <1>4, <1>5, <1>7 DEF Views
<1> HIDE DEF w
<1>9. Replaced(v, w)
  BY <1>1, <1>3, <1>7, <1>8 DEF Replaced, Standing
<1>10. Within(f, w)
  BY <1>3, <1>8 DEF Within
<1>11. link.how # "read" /\ Within(f, v) => w.at = v.at
  BY <1>1, <1>3, <1>8 DEF Within
<1> QED
  BY <1>1, <1>3, <1>6, <1>8, <1>9, <1>10, <1>11 DEF w

-----------------------------------------------------------------------------
(* The address.                                                            *)

\* The entries but for the question of the current one.
Trail(f, entries) ==
    /\ \A i \in DOMAIN entries : entries[i].package \in ByPackage(f)
    /\ \A i \in DOMAIN entries \ {1} : entries[i].package # entries[i - 1].package

Addressed(f, v) == v.entries[v.here] = Link(v.package, v.at) /\ Trail(f, v.entries)

LEMMA ReplacedKeepsTrail ==
    ASSUME NEW f, NEW v, NEW w, Standing(v), Trail(f, v.entries), Replaced(v, w),
           w.package = v.entries[v.here].package
    PROVE  Addressed(f, w)
<1>1. /\ v.entries \in Seq(Addresses) /\ v.here \in DOMAIN v.entries
      /\ w.entries = [v.entries EXCEPT ![v.here] = Link(w.package, w.at)] /\ w.here = v.here
  BY DEF Standing, Views, Replaced
<1>2. /\ DOMAIN w.entries = DOMAIN v.entries
      /\ \A i \in DOMAIN v.entries : w.entries[i].package = v.entries[i].package
  BY <1>1 DEF Link
<1>3. \A i \in DOMAIN v.entries \ {1} : i - 1 \in DOMAIN v.entries
  BY <1>1
<1>4. Trail(f, w.entries)
  BY <1>2, <1>3 DEF Trail
<1> QED
  BY <1>1, <1>4 DEF Addressed

\* The picker drops what lay ahead, and adds an entry of another package.
LEMMA PickedHolds ==
    ASSUME NEW f, NEW v, Standing(v), Addressed(f, v), Readable(f),
           NEW package \in ByPackage(f), package # v.package
    PROVE  LET w == Picked(v, package)
           IN  /\ Standing(w) /\ Addressed(f, w) /\ Len(w.entries) = v.here + 1
               /\ w.package = package /\ w.at = v.at /\ w.zoom = v.zoom
<1> DEFINE u == ClearLinkNotice([v EXCEPT !.package = package])
           kept == SubSeq(v.entries, 1, v.here)
           e == Append(kept, Link(package, v.at))
           w == Picked(v, package)
<1>1. /\ v.entries \in Seq(Addresses) /\ v.here \in 1 .. Len(v.entries) /\ v \in Views
      /\ package \in Nat /\ v.at \in Int /\ v.here \in Nat
  BY InstantsBounded DEF Standing, Views
<1>2. /\ u \in Views /\ u.entries = v.entries /\ u.here = v.here /\ u.package = package
      /\ u.at = v.at /\ u.zoom = v.zoom
  BY <1>1 DEF ClearLinkNotice, Views
<1>3. /\ kept \in Seq(Addresses) /\ Len(kept) = v.here
      /\ \A i \in 1 .. v.here : kept[i] = v.entries[i]
  <2>1. \A i \in 1 .. v.here : v.entries[i] \in Addresses
    BY <1>1
  <2> QED
    BY <1>1, <2>1, SubSeqProperties
<1>4. Link(package, v.at) \in Addresses
  BY <1>1, LinkIsAddress
<1> HIDE DEF kept
<1>5. /\ e \in Seq(Addresses) /\ Len(e) = v.here + 1 /\ e[v.here + 1] = Link(package, v.at)
      /\ \A i \in 1 .. v.here : e[i] = v.entries[i]
  BY <1>1, <1>3, <1>4, AppendProperties
<1>6. w = [u EXCEPT !.entries = e, !.here = v.here + 1]
  BY <1>2 DEF Picked, WriteUrl, kept
<1> HIDE DEF u, e
<1>7. /\ w \in Views /\ w.entries = e /\ w.here = v.here + 1 /\ w.package = package
      /\ w.at = v.at /\ w.zoom = v.zoom
  <2> DEFINE h == v.here + 1
  <2>1. h \in Nat
    BY <1>1
  <2> HIDE DEF h
  <2>2. w = [u EXCEPT !.entries = e, !.here = h]
    BY <1>6 DEF h
  <2> HIDE DEF w
  <2>3. w \in Views /\ w.entries = e /\ w.here = h
    BY <1>2, <1>5, <2>1, <2>2 DEF Views
  <2>4. w.package = u.package /\ w.at = u.at /\ w.zoom = u.zoom
    BY <1>2, <2>2 DEF Views
  <2> QED
    BY <1>2, <2>3, <2>4 DEF h
<1>8. Trail(f, e)
  <2>1. /\ DOMAIN e = 1 .. v.here + 1 /\ v.entries[v.here].package = v.package
        /\ \A i \in 1 .. v.here : v.entries[i].package \in ByPackage(f)
        /\ \A i \in (1 .. v.here) \ {1} : v.entries[i].package # v.entries[i - 1].package
        /\ e[v.here + 1].package = package
    <3>1. /\ DOMAIN e = 1 .. v.here + 1 /\ DOMAIN v.entries = 1 .. Len(v.entries)
          /\ 1 .. v.here \subseteq 1 .. Len(v.entries)
      BY <1>1, <1>5
    <3>2. v.entries[v.here].package = v.package /\ e[v.here + 1].package = package
      BY <1>5 DEF Addressed, Link
    <3> QED
      BY <3>1, <3>2 DEF Addressed, Trail
  <2>2. ASSUME NEW i \in 1 .. v.here + 1 PROVE e[i].package \in ByPackage(f)
    BY <1>1, <1>5, <2>1
  <2>3. ASSUME NEW i \in (1 .. v.here + 1) \ {1} PROVE e[i].package # e[i - 1].package
    <3>1. CASE i = v.here + 1
      <4>1. i - 1 = v.here /\ e[i - 1] = v.entries[v.here]
        BY <1>1, <1>5, <3>1
      <4> QED
        BY <2>1, <3>1, <4>1
    <3>2. CASE i # v.here + 1
      <4>1. i \in (1 .. v.here) \ {1} /\ i - 1 \in 1 .. v.here
        BY <1>1, <3>2
      <4> QED
        BY <1>5, <2>1, <4>1
    <3> QED
      BY <3>1, <3>2
  <2> QED
    BY <2>1, <2>2, <2>3 DEF Trail
<1> HIDE DEF w
<1> QED
  BY <1>1, <1>5, <1>7, <1>8 DEF Standing, Addressed, w

-----------------------------------------------------------------------------
(* The instant that the page opens on.                                     *)

\* Half-way between two instants, or in the middle of the window.
LEMMA OpeningHolds ==
    ASSUME NEW f, Readable(f)
    PROVE  LET opening == Opening(f)
               between(t) == /\ \A p \in Published(f) : p <= t
                             /\ \A r \in Remedied(f) : t < r
           IN  /\ opening \in Int /\ f.window.start <= opening /\ opening < f.window.end
               /\ (\E t \in f.window.start .. f.window.end - 1 : between(t)) => between(opening)
<1> DEFINE P == Published(f) \union {f.window.start}
           R == Remedied(f) \union {f.window.end}
           last == Max(P)
           first == Min(R)
           s == f.window.start
           e == f.window.end
           half == (last + first) \div 2
           middle == (s + e) \div 2
           between(t) == (\A p \in Published(f) : p <= t) /\ (\A r \in Remedied(f) : t < r)
<1>1. s \in Nat /\ e \in Nat /\ s < e
  BY PageAssumption DEF Readable, Accepted
<1>2. P \subseteq Instants(f) /\ P # {} /\ R \subseteq Instants(f) /\ R # {}
  BY DEF Instants
<1>3. /\ last \in P /\ \A p \in P : p <= last
      /\ first \in R /\ \A r \in R : first <= r
  BY <1>2, FirstAndLast
<1>4. /\ last \in Nat /\ first \in Nat /\ s <= last /\ first <= e
      /\ \A p \in Published(f) : p \in Nat /\ p <= last
      /\ \A r \in Remedied(f) : r \in Nat /\ first <= r
  BY <1>2, <1>3, InstantsBounded DEF Instants
<1>5. Opening(f) = Clamp(IF last < first THEN half ELSE middle, f.window)
  BY DEF Opening
<1>6. (\E t \in s .. e - 1 : between(t)) => last < first
  <2> SUFFICES ASSUME NEW t \in s .. e - 1, between(t) PROVE last < first
    OBVIOUS
  <2>1. t \in Int /\ s <= t /\ t < e
    BY <1>1
  <2>2. \A p \in P : p <= t
    BY <2>1
  <2>3. \A r \in R : t < r
    BY <2>1
  <2> HIDE DEF P, R, last, first
  <2>4. last <= t /\ t < first
    BY <1>3, <2>2, <2>3
  <2> QED
    BY <1>4, <2>1, <2>4
<1> HIDE DEF last, first
<1>7. middle \in Int /\ s <= middle /\ middle < e
  BY <1>1
<1>8. CASE last < first
  <2>1. half \in Int /\ last <= half /\ half < first
    BY <1>4, <1>8
  <2> HIDE DEF half
  <2>2. s <= half /\ half < e /\ half <= e
    BY <1>1, <1>4, <2>1
  <2>3. Clamp(half, f.window) = half
    BY <1>1, <2>1, <2>2, Clamped
  <2>4. Opening(f) = half
    BY <1>5, <1>8, <2>3
  <2>5. ASSUME NEW p \in Published(f) PROVE p <= half
    BY <1>4, <2>1
  <2>6. ASSUME NEW r \in Remedied(f) PROVE half < r
    BY <1>4, <2>1
  <2> QED
    BY <2>1, <2>2, <2>4, <2>5, <2>6
<1>9. CASE ~(last < first)
  <2> HIDE DEF middle
  <2>1. Clamp(middle, f.window) = middle
    BY <1>1, <1>7, Clamped
  <2>2. Opening(f) = middle
    BY <1>5, <1>9, <2>1
  <2>3. ~ \E t \in s .. e - 1 : between(t)
    BY <1>6, <1>9
  <2> QED
    BY <1>7, <2>2, <2>3
<1> QED
  BY <1>8, <1>9

-----------------------------------------------------------------------------
(* The invariant of the rail.                                              *)

\* What LinkIsHonouredOrDisowned says of a link and a view.
HonouredOrDisowned(link, v) ==
    /\ link.package \in {v.package, Unstated} \/ "package" \in v.notice
    /\ link.how = "read" => link.at = v.at \/ "outside" \in v.notice
    /\ link.how = "garbled" => "unreadable" \in v.notice

\* A view on the incident: its instant is on the slider, its package is one of
\* the incident's, and its address is its question.
OnTheRail(f, v) ==
    /\ Standing(v) /\ Len(v.entries) <= MaxEntries
    /\ Within(f, v) /\ v.package \in ByPackage(f) /\ Addressed(f, v)

RailInv ==
    /\ Readable(file) /\ booted \in BOOLEAN /\ dragging \in BOOLEAN /\ acts \in 0 .. MaxActs
    /\ Standing(view) /\ Len(view.entries) <= MaxEntries
    /\ asked \in Addresses /\ when \in Int
    /\ ~booted => ~dragging /\ acts = 0
    /\ dragging => acts > 0 /\ asked = NoLink
    /\ booted => /\ OnTheRail(file, view)
                 /\ asked # NoLink => HonouredOrDisowned(asked, view)
                 /\ acts = 0 /\ asked.how # "read" => view.at = Opening(file)

\* A move along the rail stays on it.
LEMMA MoveStays ==
    ASSUME NEW f, NEW v, OnTheRail(f, v), NEW w, Replaced(v, w), w.package = v.package,
           Within(f, w)
    PROVE  OnTheRail(f, w) /\ w.at \in Int
<1>1. v.entries[v.here].package = v.package /\ Trail(f, v.entries) /\ Standing(v)
  BY DEF OnTheRail, Addressed, Link
<1>2. Addressed(f, w)
  BY <1>1, ReplacedKeepsTrail
<1>3. Standing(w) /\ Len(w.entries) = Len(v.entries)
  BY <1>1 DEF Replaced, Standing, Views
<1> QED
  BY <1>2, <1>3 DEF OnTheRail, Standing, Views

LEMMA NoLinkIsAddress == NoLink \in Addresses
BY DEF NoLink, Addresses

\* The page has opened.
LEMMA BootStep ==
    ASSUME RailInv, Boot
    PROVE  RailInv'
<1> DEFINE link == view.entries[1]
           v == [package |-> DefaultPackage(file), at |-> Opening(file), zoom |-> "day",
                 notice |-> {}, entries |-> <<link>>, here |-> 1]
<1>1. Readable(file)
  BY DEF RailInv
<1>2. link \in Addresses
  <2>1. view.entries \in Seq(Addresses) /\ view.here \in DOMAIN view.entries
    BY DEF RailInv, Standing, Views
  <2> QED
    BY <2>1
<1> HIDE DEF link
<1>3. DefaultPackage(file) \in ByPackage(file) /\ DefaultPackage(file) \in Nat
  BY <1>1, InstantsBounded DEF Readable, Accepted
<1>4. Opening(file) \in Int
  BY <1>1, OpeningHolds
<1>5. <<link>> \in Seq(Addresses) /\ DOMAIN <<link>> = {1} /\ Len(<<link>>) = 1
  BY <1>2
<1>6. v \in Views /\ v.entries = <<link>> /\ v.here = 1 /\ v.at = Opening(file) /\ v.zoom = "day"
      /\ v.package = DefaultPackage(file)
  BY <1>3, <1>4, <1>5 DEF Views
<1>7. Standing(v)
  BY <1>5, <1>6 DEF Standing
<1>8. /\ view' = Opened(file, link) /\ when' = view'.at /\ asked' = link /\ booted' = TRUE
      /\ file' = file /\ dragging' = dragging /\ acts' = acts /\ ~booted
  BY DEF Boot, Shows, link
<1>9. view' = ApplyView(file, v, link)
  BY <1>8 DEF Opened
<1>10. Within(file, v)
  <2>1. v.zoom \in {"day", "window"}
    BY <1>6
  <2> HIDE DEF v
  <2> QED
    BY <1>1, <1>4, <1>6, <2>1, TravelHoldsWindow, OpeningHolds DEF Within
<1> HIDE DEF v
<1> DEFINE w == ApplyView(file, v, link)
<1>11. /\ Replaced(v, w) /\ Within(file, w)
       /\ w.package = IF link.package \in ByPackage(file) THEN link.package ELSE v.package
       /\ HonouredOrDisowned(link, w)
       /\ link.how # "read" /\ Within(file, v) => w.at = v.at
  BY <1>1, <1>2, <1>7, ApplyViewHolds DEF HonouredOrDisowned
<1> HIDE DEF w
<1>12. w.package \in ByPackage(file)
  BY <1>3, <1>6, <1>11
<1>13. /\ Standing(w) /\ w.here = 1 /\ DOMAIN w.entries = {1} /\ Len(w.entries) = 1
       /\ w.entries[1] = Link(w.package, w.at)
  BY <1>5, <1>6, <1>11 DEF Replaced
<1>14. Addressed(file, w)
  BY <1>12, <1>13 DEF Addressed, Trail, Link
<1>15. OnTheRail(file, w)
  BY <1>11, <1>12, <1>13, <1>14, PageAssumption DEF OnTheRail
<1>16. w.at \in Int
  BY <1>13 DEF Standing, Views
<1>17. asked'.how # "read" => view'.at = Opening(file)
  BY <1>6, <1>8, <1>9, <1>10, <1>11 DEF w
<1>18. view' = w
  BY <1>9 DEF w
<1> QED
  BY <1>2, <1>8, <1>11, <1>15, <1>16, <1>17, <1>18 DEF RailInv, OnTheRail

\* A choice of the operator retires what a link asked for.
LEMMA ChoiceStep ==
    ASSUME RailInv, booted, booted' = booted, NEW w, OnTheRail(file, w), w.at \in Int,
           view' = w, when' \in Int, file' = file, asked' = NoLink,
           acts' \in 1 .. MaxActs, dragging' \in BOOLEAN
    PROVE  RailInv'
BY NoLinkIsAddress DEF RailInv, OnTheRail

\* The handlers of the operator and of his last input.
LEMMA OperatorStep ==
    ASSUME RailInv, Operator \/ Release
    PROVE  RailInv'
<1> DEFINE travel == Travel(file, view.zoom)
<1>1. Readable(file) /\ Standing(view) /\ view.zoom \in {"day", "window"} /\ acts \in 0 .. MaxActs
  BY DEF RailInv, Standing, Views
<1>2. \A t \in travel.start .. travel.end : t \in Int /\ travel.start <= t /\ t <= travel.end
  BY <1>1, TravelHoldsWindow
<1>3. Acts => booted /\ acts' \in 1 .. MaxActs /\ booted' = booted
  BY <1>1, PageAssumption DEF Acts
<1>4. booted => OnTheRail(file, view)
  BY DEF RailInv
<1>5. ASSUME NEW t \in travel.start .. travel.end, booted
      PROVE  OnTheRail(file, SetInstant(view, t)) /\ SetInstant(view, t).at \in Int
  <2> DEFINE w == SetInstant(view, t)
  <2>1. /\ Replaced(view, w) /\ w.package = view.package /\ w.at = t /\ w.zoom = view.zoom
    BY <1>1, <1>2, SetInstantHolds
  <2> HIDE DEF w
  <2>2. Within(file, w)
    BY <1>2, <2>1 DEF Within
  <2> QED
    BY <1>4, <1>5, <2>1, <2>2, MoveStays DEF w
<1>6. ASSUME NEW t \in Markers(file), booted
      PROVE  OnTheRail(file, GoTo(file, view, t)) /\ GoTo(file, view, t).at \in Int
  BY <1>1, <1>4, <1>6, GoToHolds, MoveStays
<1>7. CASE Drag
  <2>1. PICK t \in travel.start .. travel.end :
            Acts /\ asked' = NoLink /\ dragging' = TRUE /\ Shows(SetInstant(view, t), FALSE)
    BY <1>7 DEF Drag
  <2> DEFINE w == SetInstant(view, t)
  <2>2. view' = w /\ when' = w.at /\ file' = file
    BY <2>1 DEF Shows
  <2>3. OnTheRail(file, w) /\ w.at \in Int
    BY <1>3, <1>5, <2>1
  <2> HIDE DEF w
  <2> QED
    BY <1>3, <2>1, <2>2, <2>3, ChoiceStep
<1>8. CASE Key
  <2>1. PICK t \in travel.start .. travel.end :
            Chooses /\ Shows(SetInstant(view, t), TRUE) /\ UNCHANGED dragging
    BY <1>8 DEF Key
  <2> DEFINE w == SetInstant(view, t)
  <2>2. view' = w /\ when' = w.at /\ file' = file /\ Acts /\ asked' = NoLink
    BY <2>1 DEF Shows, Chooses
  <2>3. OnTheRail(file, w) /\ w.at \in Int
    BY <1>3, <1>5, <2>2
  <2> HIDE DEF w
  <2> QED
    BY <1>3, <2>1, <2>2, <2>3, ChoiceStep DEF RailInv
<1>9. ASSUME NEW t \in Markers(file), Chooses, Shows(GoTo(file, view, t), TRUE), UNCHANGED dragging
      PROVE  RailInv'
  <2> DEFINE w == GoTo(file, view, t)
  <2>2. view' = w /\ when' = w.at /\ file' = file /\ Acts /\ asked' = NoLink
    BY <1>9 DEF Shows, Chooses
  <2>3. OnTheRail(file, w) /\ w.at \in Int
    BY <1>3, <1>6, <2>2
  <2> HIDE DEF w
  <2> QED
    BY <1>3, <1>9, <2>2, <2>3, ChoiceStep DEF RailInv
<1>10. CASE Chip
  BY <1>9, <1>10 DEF Chip
<1>11. CASE Step
  <2>1. PICK direction \in {-1, 1} : \E t \in NextEvents(file, view, direction) :
            Chooses /\ Shows(GoTo(file, view, t), TRUE) /\ UNCHANGED dragging
    BY <1>11 DEF Step
  <2>2. PICK t \in NextEvents(file, view, direction) :
            Chooses /\ Shows(GoTo(file, view, t), TRUE) /\ UNCHANGED dragging
    BY <2>1
  <2>3. t \in Markers(file)
    BY <2>2 DEF NextEvents
  <2> QED
    BY <1>9, <2>2, <2>3
<1>12. CASE Zoom
  <2>1. PICK zoom \in {"day", "window"} :
            Chooses /\ Shows(SetDomain(file, view, zoom), TRUE) /\ UNCHANGED dragging
    BY <1>12 DEF Zoom
  <2> DEFINE w == SetDomain(file, view, zoom)
  <2>2. view' = w /\ when' = w.at /\ file' = file /\ Acts /\ asked' = NoLink
    BY <2>1 DEF Shows, Chooses
  <2>3. Replaced(view, w) /\ w.package = view.package /\ Within(file, w)
    BY <1>1, SetDomainHolds
  <2> HIDE DEF w
  <2>4. OnTheRail(file, w) /\ w.at \in Int
    BY <1>3, <1>4, <2>2, <2>3, MoveStays
  <2> QED
    BY <1>3, <2>1, <2>2, <2>4, ChoiceStep DEF RailInv
<1>13. CASE Pick
  <2>1. PICK package \in ByPackage(file) \ {view.package} :
            /\ view.here < MaxEntries /\ Chooses /\ view' = Picked(view, package)
            /\ UNCHANGED <<file, when, dragging>>
    BY <1>13 DEF Pick
  <2>2. Acts /\ asked' = NoLink
    BY <2>1 DEF Chooses
  <2> DEFINE w == Picked(view, package)
  <2>3. Addressed(file, view) /\ Within(file, view)
    BY <1>3, <1>4, <2>2 DEF OnTheRail
  <2>4. /\ Standing(w) /\ Addressed(file, w) /\ Len(w.entries) = view.here + 1
        /\ w.package = package /\ w.at = view.at /\ w.zoom = view.zoom
    BY <1>1, <2>3, PickedHolds
  <2>5. view' = w
    BY <2>1
  <2> HIDE DEF w
  <2>6. view.here + 1 <= MaxEntries
    BY <1>1, <2>1, PageAssumption DEF Standing, Views
  <2>7. OnTheRail(file, w) /\ w.at \in Int
    BY <2>3, <2>4, <2>6 DEF OnTheRail, Within, Standing, Views
  <2> QED
    BY <1>3, <2>1, <2>2, <2>5, <2>7, ChoiceStep DEF RailInv
<1>14. CASE Walk
  <2>1. PICK here \in {view.here - 1, view.here + 1} \intersect DOMAIN view.entries :
            /\ Acts /\ ~dragging /\ asked' = view.entries[here]
            /\ Shows(ApplyView(file, [view EXCEPT !.here = here], view.entries[here]), TRUE)
            /\ UNCHANGED dragging
    BY <1>14 DEF Walk
  <2> DEFINE v == [view EXCEPT !.here = here]
             link == view.entries[here]
             w == ApplyView(file, v, link)
  <2>2. /\ view.entries \in Seq(Addresses) /\ here \in DOMAIN view.entries /\ here \in Nat
        /\ view \in Views
    BY <1>1 DEF Standing, Views
  <2>3. link \in Addresses
    BY <2>2
  <2>4. Standing(v) /\ v.entries = view.entries /\ v.here = here /\ v.package = view.package
    BY <2>2 DEF Standing, Views
  <2>5. Trail(file, view.entries) /\ Len(view.entries) <= MaxEntries
    BY <1>3, <1>4, <2>1 DEF OnTheRail, Addressed
  <2>6. link.package \in ByPackage(file)
    BY <2>2, <2>5 DEF Trail
  <2>7. view' = w /\ when' = w.at /\ file' = file /\ asked' = link
    BY <2>1 DEF Shows
  <2> HIDE DEF v
  <2>8. v.entries[v.here] = link
    BY <2>4
  <2> HIDE DEF link
  <2>9. /\ Replaced(v, w) /\ Within(file, w) /\ w.package = link.package
        /\ HonouredOrDisowned(link, w)
    BY <1>1, <2>3, <2>4, <2>6, ApplyViewHolds DEF HonouredOrDisowned
  <2> HIDE DEF w
  <2>10. Addressed(file, w)
    BY <2>4, <2>5, <2>8, <2>9, ReplacedKeepsTrail
  <2>11. Standing(w) /\ Len(w.entries) = Len(view.entries)
    BY <2>2, <2>4, <2>9 DEF Replaced, Standing, Views
  <2>12. OnTheRail(file, w) /\ w.at \in Int
    BY <2>5, <2>6, <2>9, <2>10, <2>11 DEF OnTheRail, Standing, Views
  <2> QED
    BY <1>3, <2>1, <2>3, <2>7, <2>9, <2>12 DEF RailInv, OnTheRail
<1>15. CASE Search
  BY <1>3, <1>15 DEF Search, RailInv, OnTheRail
<1>16. CASE Release
  <2> DEFINE w == SetInstant(view, view.at)
  <2>1. /\ dragging /\ dragging' = FALSE /\ view' = w /\ when' = w.at /\ file' = file
        /\ booted' = booted /\ acts' = acts /\ asked' = asked
    BY <1>16 DEF Release, Shows
  <2>2. booted /\ asked = NoLink /\ acts \in 1 .. MaxActs
    BY <1>1, <2>1 DEF RailInv
  <2>3. view.at \in travel.start .. travel.end
    BY <1>1, <1>4, <2>2, TravelHoldsWindow DEF OnTheRail, Within, Standing, Views
  <2>4. OnTheRail(file, w) /\ w.at \in Int
    BY <1>5, <2>2, <2>3
  <2> HIDE DEF w
  <2> QED
    BY <2>1, <2>2, <2>4, ChoiceStep
<1> QED
  BY <1>7, <1>8, <1>10, <1>11, <1>12, <1>13, <1>14, <1>15, <1>16 DEF Operator

\* Timers, replies and paints leave the rail alone.
LEMMA QuietStep ==
    ASSUME RailInv, UNCHANGED <<file, booted, view, dragging, acts, asked>>, when' \in Int
    PROVE  RailInv'
BY DEF RailInv, OnTheRail

-----------------------------------------------------------------------------
(* The invariant of the paints.                                            *)

\* What is true of the panels between any two handlers: at most one read is
\* under way, and it is load's; it is of the question on screen unless the
\* debounce is running or an answer from the cache overtook it; and once there
\* is neither, nor a failure, the panels are the answer to the question.
PaintInv ==
    /\ {timer, rankTimer, overtaken, searched, banner.up} \subseteq BOOLEAN
    /\ {inflight, exposure, panels, href} \subseteq Places
    /\ reads \subseteq Places /\ cache \subseteq Places
    /\ reads \subseteq {inflight}
    /\ ~booted => ~timer
    /\ exposure # NoQuestion => exposure = panels
    /\ ExportIsOfThePanels
    /\ banner.up /\ panels # NoQuestion => banner.at = panels.at
    /\ ~timer /\ reads = {} /\ ~banner.up /\ panels # NoQuestion => when = panels.at
    /\ booted /\ ~timer /\ ~overtaken => reads \subseteq {Question}
    /\ booted /\ ~timer /\ reads = {} /\ ~banner.up =>
            foot.at = view.at /\ (~overtaken => panels = Question)

\* What is true of the ranking: its note is of the instant of the rail, or a
\* ranking of that instant is on its way.
RankInv ==
    /\ IsABag(rankReads) /\ DOMAIN rankReads \subseteq Int /\ ranking \in Int
    /\ ~booted => ~rankTimer
    /\ booted /\ ~rankTimer /\ ~dragging /\ ~searched =>
            \/ rankNote.text = "scoring" /\ view.at \in BagToSet(rankReads)
            \/ rankNote.text = "current" /\ ranking = view.at
            \/ rankNote.text = "failed" /\ rankNote.at = ranking

PageInv == RailInv /\ PaintInv /\ RankInv

\* A move along the rail, or the choice of a package, starts the debounce; it
\* leaves the panels, and settles for a new ranking unless the slider is held.
Moves ==
    /\ booted' = TRUE /\ timer' = TRUE /\ rankTimer' \in BOOLEAN
    /\ dragging' \/ rankTimer'
    /\ exposure' \in {exposure, NoQuestion}
    /\ UNCHANGED <<inflight, reads, cache, panels, foot, banner, href, overtaken>>
    /\ UNCHANGED reach

LEMMA MovesAre ==
    ASSUME PageInv, Boot \/ Release \/ (Operator /\ ~Search)
    PROVE  Moves
<1>1. /\ booted \in BOOLEAN /\ dragging \in BOOLEAN /\ timer \in BOOLEAN /\ rankTimer \in BOOLEAN
      /\ dragging => booted
  BY DEF PageInv, RailInv, PaintInv
<1>2. ASSUME NEW next, NEW settled \in BOOLEAN, Shows(next, settled), booted' = TRUE,
             settled \/ dragging'
      PROVE  Moves
  BY <1>1, <1>2 DEF Shows, Refresh, Moves, answers, reach
<1>3. CASE Boot
  BY <1>2, <1>3 DEF Boot
<1>4. CASE Release
  BY <1>1, <1>2, <1>4 DEF Release
<1>5. CASE Drag
  BY <1>2, <1>5 DEF Drag, Acts
<1>6. CASE Key
  BY <1>2, <1>6 DEF Key, Acts, Chooses
<1>7. CASE Chip
  BY <1>2, <1>7 DEF Chip, Acts, Chooses
<1>8. CASE Step
  BY <1>2, <1>8 DEF Step, Acts, Chooses
<1>9. CASE Zoom
  BY <1>2, <1>9 DEF Zoom, Acts, Chooses
<1>10. CASE Walk
  BY <1>2, <1>10 DEF Walk, Acts
<1>11. CASE Pick
  BY <1>1, <1>11 DEF Pick, Refresh, Moves, Chooses, Acts, reach
<1> QED
  BY <1>3, <1>4, <1>5, <1>6, <1>7, <1>8, <1>9, <1>10, <1>11 DEF Operator

LEMMA QuestionTypes ==
    ASSUME RailInv
    PROVE  Question \in Places /\ NoQuestion \in Places /\ Question.at = view.at /\ view.at \in Int
BY DEF RailInv, Standing, Views, Question, NoQuestion, Places

LEMMA MovesKeepPaint ==
    ASSUME PageInv, Moves
    PROVE  PaintInv'
BY QuestionTypes DEF PageInv, PaintInv, Moves, reach, ExportIsOfThePanels

\* The handlers of load and of the replies to it.
LEMMA ExposureStep ==
    ASSUME PageInv, Exposures \/ Footprint
    PROVE  RailInv' /\ PaintInv'
<1> USE DEF PageInv
<1>1. Question \in Places /\ NoQuestion \in Places /\ Question.at = view.at /\ view.at \in Int
  BY QuestionTypes
<1>2. /\ {timer, rankTimer, overtaken, searched, banner.up} \subseteq BOOLEAN
      /\ \A q \in Places : q.at \in Int
  BY DEF PaintInv, Places
<1>3. Quiet => UNCHANGED <<file, booted, view, dragging, acts, asked, rankReads, ranking, rankNote, searched>>
               /\ Question' = Question
  BY DEF Quiet, reach, Question
<1>4. ASSUME NEW q \in Places, Paint(q)
      PROVE  /\ exposure' = q /\ panels' = q /\ href' = q /\ when' = q.at /\ q.at \in Int
             /\ banner'.up = FALSE /\ foot'.at = view.at
  BY <1>2, <1>4 DEF Paint, NoBanner
<1>5. CASE LoadFromCache
  <2>1. /\ exposure' = Question /\ panels' = Question /\ href' = Question /\ when' = view.at
        /\ banner'.up = FALSE /\ foot'.at = view.at
    BY <1>1, <1>4, <1>5 DEF LoadFromCache
  <2>2. /\ timer' = FALSE /\ UNCHANGED <<rankTimer, inflight, reads, cache>>
        /\ overtaken' = (overtaken \/ reads # {}) /\ Quiet
    BY <1>5 DEF LoadFromCache
  <2>3. RailInv'
    BY <1>1, <1>3, <2>1, <2>2, QuietStep
  <2>4. PaintInv'
    BY <1>1, <1>2, <1>3, <2>1, <2>2 DEF PaintInv, ExportIsOfThePanels
  <2> QED
    BY <2>3, <2>4
<1>6. CASE LoadFromNode
  <2>1. /\ timer' = FALSE /\ inflight' = Question /\ overtaken' = FALSE /\ Quiet
        /\ reads' = (reads \ {inflight}) \union {Question}
        /\ UNCHANGED <<when, rankTimer, cache, exposure, panels, foot, banner, href>>
    BY <1>6 DEF LoadFromNode
  <2>2. reads' = {Question}
    BY <2>1 DEF PaintInv
  <2>3. RailInv'
    BY <1>3, <2>1, QuietStep DEF RailInv
  <2>4. PaintInv'
    BY <1>1, <1>2, <1>3, <2>1, <2>2 DEF PaintInv, ExportIsOfThePanels
  <2> QED
    BY <2>3, <2>4
<1>7. ASSUME NEW q \in reads, Answered(q) PROVE RailInv' /\ PaintInv'
  <2>1. q \in Places /\ q = inflight /\ reads = {q}
    BY <1>7 DEF PaintInv
  <2>2. /\ exposure' = q /\ panels' = q /\ href' = q /\ when' = q.at /\ q.at \in Int
        /\ banner'.up = FALSE /\ foot'.at = view.at
    BY <1>4, <1>7, <2>1 DEF Answered
  <2>3. /\ reads' = reads \ {q} /\ inflight' = NoQuestion /\ Quiet
        /\ cache' \subseteq cache \union {q} /\ UNCHANGED <<timer, rankTimer, overtaken>>
    BY <1>7 DEF Answered
  <2>4. reads' = {}
    BY <2>1, <2>3
  <2>5. RailInv'
    BY <1>3, <2>2, <2>3, QuietStep
  <2>6. booted /\ ~timer /\ ~overtaken => q = Question
    BY <2>1 DEF PaintInv
  <2>7. /\ {timer, rankTimer, overtaken, searched, banner.up}' \subseteq BOOLEAN
        /\ {inflight, exposure, panels, href}' \subseteq Places
        /\ reads' \subseteq Places /\ cache' \subseteq Places
        /\ ~booted' => ~timer'
    BY <1>1, <1>2, <1>3, <2>1, <2>2, <2>3, <2>4 DEF PaintInv
  <2>8. booted' /\ ~timer' /\ ~overtaken' => panels' = Question'
    BY <1>3, <2>2, <2>3, <2>6
  <2>9. ExportIsOfThePanels' /\ exposure' = panels' /\ when' = panels'.at /\ foot'.at = view'.at
    BY <1>3, <2>2, <2>3 DEF ExportIsOfThePanels
  <2>10. PaintInv'
    BY <2>2, <2>4, <2>7, <2>8, <2>9 DEF PaintInv
  <2> QED
    BY <2>5, <2>10
<1>8. ASSUME NEW q \in reads, Failed(q) PROVE RailInv' /\ PaintInv'
  <2>1. /\ reads' \subseteq reads /\ href' = NoQuestion /\ Quiet
        /\ banner'.up = TRUE /\ banner'.at = exposure.at
        /\ UNCHANGED <<when, timer, rankTimer, inflight, cache, exposure, overtaken>>
    BY <1>8 DEF Failed
  <2>2. \/ exposure = NoQuestion /\ panels' = NoQuestion
        \/ exposure # NoQuestion /\ panels' = panels
    BY <1>8 DEF Failed
  <2>3. RailInv'
    BY <1>3, <2>1, QuietStep DEF RailInv
  <2>4. /\ {timer, rankTimer, overtaken, searched, banner.up}' \subseteq BOOLEAN
        /\ {inflight, exposure, panels, href}' \subseteq Places
        /\ reads' \subseteq Places /\ cache' \subseteq Places /\ reads' \subseteq {inflight'}
        /\ ~booted' => ~timer'
    BY <1>1, <1>2, <1>3, <2>1, <2>2 DEF PaintInv
  <2>5. booted' /\ ~timer' /\ ~overtaken' => reads' \subseteq {Question'}
    BY <1>3, <2>1 DEF PaintInv
  <2>6. /\ exposure' # NoQuestion => exposure' = panels'
        /\ panels' # NoQuestion => banner'.at = panels'.at
    BY <2>1, <2>2 DEF PaintInv
  <2>7. ExportIsOfThePanels'
    BY <2>1 DEF ExportIsOfThePanels
  <2>8. PaintInv'
    BY <2>1, <2>4, <2>5, <2>6, <2>7 DEF PaintInv
  <2> QED
    BY <2>3, <2>8
<1>9. CASE Footprint
  <2>1. PICK came \in BOOLEAN :
            /\ came /\ panels.package # view.package => foot' = [foot EXCEPT !.text = "left"]
            /\ came /\ panels.package = view.package => foot' = [foot EXCEPT !.text = "shown"]
            /\ ~came => foot' = [foot EXCEPT !.text = "unavailable"]
            /\ Quiet
            /\ UNCHANGED <<when, timer, rankTimer, inflight, reads, cache, exposure, panels, banner,
                           href, overtaken>>
    BY <1>9 DEF Footprint
  <2>2. \E text : foot' = [foot EXCEPT !.text = text]
    BY <2>1
  <2>3. foot'.at = foot.at
    BY <2>2
  <2>4. RailInv'
    BY <1>3, <2>1, QuietStep DEF RailInv
  <2>5. PaintInv'
    BY <1>1, <1>2, <1>3, <2>1, <2>3 DEF PaintInv, ExportIsOfThePanels
  <2> QED
    BY <2>4, <2>5
<1> QED
  BY <1>5, <1>6, <1>7, <1>8, <1>9 DEF Exposures

-----------------------------------------------------------------------------
(* The invariant of the ranking.                                           *)

\* One more read of a ranking, and one fewer.
LEMMA OneMore ==
    ASSUME NEW B, IsABag(B), NEW t
    PROVE  /\ IsABag(B (+) SetToBag({t})) /\ t \in BagToSet(B (+) SetToBag({t}))
           /\ DOMAIN (B (+) SetToBag({t})) = DOMAIN B \union {t}
BY DEF IsABag, (+), SetToBag, BagToSet

LEMMA OneFewer ==
    ASSUME NEW B, IsABag(B), NEW t
    PROVE  /\ IsABag(B (-) SetToBag({t})) /\ DOMAIN (B (-) SetToBag({t})) \subseteq DOMAIN B
           /\ \A u \in BagToSet(B) : u # t => u \in BagToSet(B (-) SetToBag({t}))
BY DEF IsABag, (-), SetToBag, BagToSet

\* The handlers of the ranking.
LEMMA RankingStep ==
    ASSUME PageInv,
           LoadRanking \/ (\E t \in BagToSet(rankReads) : Ranked(t) \/ RankingFailed(t))
    PROVE  PageInv'
<1> USE DEF PageInv
<1>1. Scores => /\ UNCHANGED <<file, booted, view, when, timer, dragging, acts, asked>>
                /\ UNCHANGED <<inflight, reads, cache, exposure, panels, foot, banner, href, overtaken>>
                /\ Question' = Question
  BY DEF Scores, rail, answers, Question
<1>2. view.at \in Int
  BY QuestionTypes
<1>3. Scores => RailInv'
  BY <1>1, QuietStep DEF RailInv
<1>4. Scores /\ rankTimer' \in BOOLEAN /\ searched' \in BOOLEAN => PaintInv'
  BY <1>1 DEF PaintInv, ExportIsOfThePanels
<1>5. CASE LoadRanking
  <2>1. /\ rankTimer' = FALSE /\ searched' = FALSE /\ Scores /\ ranking' = ranking
        /\ rankReads' = rankReads (+) SetToBag({view.at})
        /\ rankNote'.text = "scoring"
    BY <1>5 DEF LoadRanking
  <2>2. IsABag(rankReads) /\ DOMAIN rankReads \subseteq Int
    BY DEF RankInv
  <2> DEFINE more == rankReads (+) SetToBag({view.at})
  <2>3. IsABag(more) /\ view.at \in BagToSet(more) /\ DOMAIN more = DOMAIN rankReads \union {view.at}
    BY <2>2, OneMore
  <2>4. rankReads' = more
    BY <2>1
  <2> HIDE DEF more
  <2>5. /\ IsABag(rankReads)' /\ view.at \in BagToSet(rankReads')
        /\ DOMAIN rankReads' \subseteq Int
    BY <1>2, <2>2, <2>3, <2>4
  <2>6. RankInv'
    BY <1>1, <2>1, <2>5 DEF RankInv
  <2> QED
    BY <1>3, <1>4, <2>1, <2>6
<1>6. ASSUME NEW t \in BagToSet(rankReads), Ranked(t) \/ RankingFailed(t) PROVE PageInv'
  <2>1. /\ rankReads' = rankReads (-) SetToBag({t}) /\ Scores /\ UNCHANGED <<rankTimer, searched>>
    BY <1>6 DEF Ranked, RankingFailed
  <2>2. /\ IsABag(rankReads)' /\ DOMAIN rankReads' \subseteq Int
        /\ t # view.at /\ view.at \in BagToSet(rankReads) => view.at \in BagToSet(rankReads')
    BY <2>1, OneFewer DEF RankInv
  <2>3. t \in Int
    BY DEF RankInv, BagToSet
  <2>4. \/ t # view.at /\ UNCHANGED <<ranking, rankNote>>
        \/ t = view.at /\ ranking' = t /\ rankNote'.text = "current"
        \/ t = view.at /\ ranking' = ranking /\ rankNote'.text = "failed" /\ rankNote'.at = ranking
    BY <1>6 DEF Ranked, RankingFailed
  <2>5. RankInv'
    BY <1>1, <2>1, <2>2, <2>3, <2>4 DEF RankInv
  <2>6. rankTimer' \in BOOLEAN /\ searched' \in BOOLEAN
    BY <2>1 DEF PaintInv
  <2> QED
    BY <1>3, <1>4, <2>1, <2>5, <2>6
<1> QED
  BY <1>5, <1>6

-----------------------------------------------------------------------------
(* The whole page.                                                         *)

LEMMA PageInitially == PageInit => PageInv
<1> SUFFICES ASSUME PageInit PROVE PageInv
  OBVIOUS
<1>1. PICK link \in Links :
        view = [package |-> 0, at |-> 0, zoom |-> "day", notice |-> {}, entries |-> <<link>>, here |-> 1]
  BY DEF PageInit
<1>2. link \in Addresses
  BY PageAssumption DEF Addresses
<1>3. view \in Views /\ Standing(view) /\ Len(view.entries) = 1
  BY <1>1, <1>2 DEF Views, Standing
<1>4. RailInv
  <2>1. Readable(file)
    BY DEF PageInit, Readable
  <2>2. booted = FALSE /\ dragging = FALSE /\ acts = 0 /\ when = 0 /\ asked = NoLink
    BY DEF PageInit
  <2>3. Len(view.entries) <= MaxEntries /\ acts \in 0 .. MaxActs /\ when \in Int
    BY <1>3, <2>2, PageAssumption
  <2>4. asked \in Addresses
    BY <2>2, NoLinkIsAddress
  <2> QED
    BY <1>3, <2>1, <2>2, <2>3, <2>4 DEF RailInv
<1>5. PaintInv
  <2>1. /\ booted = FALSE /\ timer = FALSE /\ rankTimer = FALSE /\ overtaken = FALSE /\ searched = FALSE
        /\ inflight = NoQuestion /\ reads = {} /\ cache = {} /\ banner = NoBanner
        /\ exposure = NoQuestion /\ panels = NoQuestion /\ href = NoQuestion
    BY DEF PageInit
  <2>2. NoQuestion \in Places /\ banner.up = FALSE
    BY <2>1 DEF NoQuestion, Places, NoBanner
  <2>3. ExportIsOfThePanels
    BY <2>1, <2>2 DEF ExportIsOfThePanels
  <2> QED
    BY <2>1, <2>2, <2>3 DEF PaintInv
<1>6. RankInv
  BY DEF PageInit, RankInv, EmptyBag, SetToBag, IsABag
<1> QED
  BY <1>4, <1>5, <1>6 DEF PageInv

LEMMA PageStep ==
    ASSUME PageInv, [Next]_vars
    PROVE  PageInv'
<1>1. CASE Boot \/ Release \/ (Operator /\ ~Search)
  <2>1. RailInv'
    BY <1>1, BootStep, OperatorStep DEF PageInv
  <2>2. Moves
    BY <1>1, MovesAre
  <2>3. PaintInv'
    BY <2>2, MovesKeepPaint
  <2>4. RankInv'
    BY <2>2 DEF PageInv, RankInv, Moves, reach
  <2> QED
    BY <2>1, <2>3, <2>4 DEF PageInv
<1>2. CASE Search
  <2>1. RailInv'
    BY <1>2, OperatorStep DEF Operator, PageInv
  <2>2. /\ UNCHANGED <<file, view, when, timer, rankTimer, rankReads, ranking, dragging, asked, booted>>
        /\ UNCHANGED <<inflight, reads, cache, exposure, panels, foot, banner, href, overtaken>>
        /\ searched' = TRUE /\ Question' = Question
    BY <1>2 DEF Search, Acts, answers, Question
  <2>3. PaintInv'
    BY <2>2 DEF PageInv, PaintInv, ExportIsOfThePanels
  <2>4. RankInv'
    BY <2>2 DEF PageInv, RankInv
  <2> QED
    BY <2>1, <2>3, <2>4 DEF PageInv
<1>3. CASE Exposures \/ Footprint
  <2>1. RailInv' /\ PaintInv'
    BY <1>3, ExposureStep
  <2>2. UNCHANGED <<booted, view, dragging, rankReads, ranking, rankNote, searched, rankTimer>>
    BY <1>3 DEF Exposures, LoadFromCache, LoadFromNode, Answered, Failed, Footprint, Quiet, reach
  <2>3. RankInv'
    BY <2>2 DEF PageInv, RankInv
  <2> QED
    BY <2>1, <2>3 DEF PageInv
<1>4. CASE LoadRanking \/ (\E t \in BagToSet(rankReads) : Ranked(t) \/ RankingFailed(t))
  BY <1>4, RankingStep
<1>5. CASE UNCHANGED vars
  BY <1>5 DEF vars, rail, answers, reach, PageInv, RailInv, PaintInv, RankInv, Question,
              ExportIsOfThePanels
<1> QED
  BY <1>1, <1>2, <1>3, <1>4, <1>5 DEF Next, Browser, Aside

\* app.js, incident.py: what holds between any two handlers of the page, for
\* every accepted file, link and order of acts, timers, replies and failures.
THEOREM PageInvariant == Spec => []PageInv
BY PageInitially, PageStep, PTL DEF Spec

\* incident.py: the stretch that the slider covers holds the window and every
\* event, a derived one begins before the window opens, and the rail stays on it
\* with a package of the incident.
THEOREM EventsShown == Spec => []NoEventIsHidden
<1>1. PageInv => NoEventIsHidden
  BY DomainHoldsAll DEF PageInv, RailInv, OnTheRail, Within, NoEventIsHidden
<1> QED
  BY <1>1, PageInvariant, PTL

\* boot: whatever the file lists, the page opens inside the window, and after
\* the last publication and before the first clean successor if it can.
THEOREM OpensArmed == Spec => []OpensWhileArmed
<1>1. PageInv => OpensWhileArmed
  BY OpeningHolds DEF PageInv, RailInv, OpensWhileArmed
<1> QED
  BY <1>1, PageInvariant, PTL

\* "When a link cannot be honoured exactly, the console says so", whether it was
\* opened or walked back to.
THEOREM LinkHonoured == Spec => []LinkIsHonouredOrDisowned
<1>1. PageInv => LinkIsHonouredOrDisowned
  BY DEF PageInv, RailInv, HonouredOrDisowned, LinkIsHonouredOrDisowned
<1> QED
  BY <1>1, PageInvariant, PTL

\* "The view is addressable": the address is the question on screen, and going
\* back leads to another package.
THEOREM AddressRight == Spec => []AddressIsTheQuestion
<1>1. PageInv => AddressIsTheQuestion
  BY DEF PageInv, RailInv, OnTheRail, Addressed, Trail, AddressIsTheQuestion
<1> QED
  BY <1>1, PageInvariant, PTL

\* load: at rest, with no failed read, the page shows the answer to its question
\* and the footprints of its instant, unless the cache overtook a read.
THEOREM ShowsTheQuestion == Spec => []ShowsWhatIsAsked
<1>1. PageInv => ShowsWhatIsAsked
  BY DEF PageInv, PaintInv, ShowsWhatIsAsked, AtRest
<1> QED
  BY <1>1, PageInvariant, PTL

\* readFailed, renderExport: the panels are never under another instant than
\* their own, and the packet that can be carried away is of the panels.
THEOREM Dated == Spec => []EverythingIsDated
<1>1. PageInv => TypeOK
  <2> SUFFICES ASSUME PageInv PROVE TypeOK
    OBVIOUS
  <2>1. file \in Files /\ Accepted(file) /\ when \in Int /\ acts \in 0 .. MaxActs
    BY DEF PageInv, RailInv, Readable
  <2>2. {booted, timer, rankTimer, dragging, overtaken, searched} \subseteq BOOLEAN
    BY DEF PageInv, RailInv, PaintInv
  <2>3. /\ view.package \in Nat /\ view.at \in Int /\ view.zoom \in {"day", "window"}
        /\ view.notice \subseteq {"package", "unreadable", "outside"}
        /\ view.here \in DOMAIN view.entries /\ Len(view.entries) <= MaxEntries
    BY DEF PageInv, RailInv, Standing, Views
  <2>4. /\ {inflight, exposure, panels, href} \subseteq Places
        /\ reads \subseteq Places /\ cache \subseteq Places
        /\ IsABag(rankReads) /\ ranking \in Int
    BY DEF PageInv, PaintInv, RankInv
  <2> QED
    BY <2>1, <2>2, <2>3, <2>4 DEF TypeOK
<1>2. PageInv => PanelsAreDated
  BY DEF PageInv, PaintInv, PanelsAreDated, AtRest
<1>3. PageInv => ExportIsOfThePanels
  BY DEF PageInv, PaintInv
<1>4. PageInv => EverythingIsDated
  BY <1>1, <1>2, <1>3 DEF EverythingIsDated
<1> QED
  BY <1>4, PageInvariant, PTL

\* loadRanking: at rest the ranking is of the instant of the rail, or its note
\* says that it failed and of when it is, unless the search rendered it away.
THEOREM RankingRight == Spec => []RankingIsOfTheInstant
<1>1. PageInv => RankingIsOfTheInstant
  BY DEF PageInv, RankInv, RankingIsOfTheInstant, AtRest, EmptyBag, SetToBag, BagToSet
<1> QED
  BY <1>1, PageInvariant, PTL
=============================================================================
