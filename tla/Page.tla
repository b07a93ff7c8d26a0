---------------------------------- MODULE Page ----------------------------------
(***************************************************************************)
(* The page of the console (app.js): what the operator does to the rail,   *)
(* the two timers it starts, the reads they send and what the replies      *)
(* paint.  A handler runs to its end, so each is one action; between any   *)
(* two of them the node may answer or fail any read that is still awaited. *)
(***************************************************************************)
EXTENDS Rail, Bags

CONSTANTS
    Files,      \* incident files
    Links,      \* addresses the page may be opened on
    CacheSize,  \* answers kept before the cache is emptied (400)
    MaxActs,    \* bound: acts of the operator
    MaxEntries  \* bound: history entries

\* The fields of a file are instants and packages; read from JSON, it is finite.
ASSUME PageAssumption ==
    /\ CacheSize \in Nat /\ MaxActs \in Nat /\ MaxEntries \in Nat \ {0}
    /\ \A f \in Files :
            /\ f.window \in [start : Nat, end : Nat] /\ f.domain \in [start : Nat, end : Nat]
            /\ {f.default, f.disclosed} \subseteq Nat
            /\ IsFiniteSet(f.versions)
            /\ \A v \in f.versions : /\ {v.package, v.published, v.remedied} \subseteq Nat
                                     /\ v.package # Unstated
            /\ f.window.start > Day /\ f.window.start > Before
    /\ Links \subseteq [package : Nat, at : Int, how : {"none", "read", "garbled"}]

VARIABLES
    file,       \* the incident that is shown
    booted,
    view,       \* package, instant, zoom, notice, entries and the current one
    when,       \* answer-when: the instant above the answer
    timer, rankTimer,
    inflight,   \* the question whose read load() would abort
    reads,      \* questions whose reads were sent and neither answered nor aborted
    cache,
    exposure,   \* the question of state.exposure
    panels,     \* the question whose answer the counts, rows and drawing are
    foot,       \* the footprint in the rows: the instant asked for, and what came of it
    banner,     \* READ FAILED, and the instant that it names
    href,       \* the question of the export links
    rankReads, ranking, rankNote,
    dragging,   \* the slider is held
    acts,
    asked, overtaken, searched  \* ghosts: see the properties

rail == <<file, booted, view, when>>
answers == <<inflight, reads, cache, exposure, panels, foot, banner, href, overtaken>>
reach == <<rankReads, ranking, rankNote, searched>>
vars == <<rail, timer, rankTimer, answers, reach, dragging, acts, asked>>

NoQuestion == [package |-> 0, at |-> 0]
NoLink == [package |-> 0, at |-> 0, how |-> "none"]
NoFoot == [at |-> 0, text |-> "none"]
NoBanner == [up |-> FALSE, at |-> 0]
Question == [package |-> view.package, at |-> view.at]

PageInit ==
    /\ file \in {f \in Files : Accepted(f)}
    /\ booted = FALSE
    /\ view \in {[package |-> 0, at |-> 0, zoom |-> "day", notice |-> {},
                  entries |-> <<link>>, here |-> 1] : link \in Links}
    /\ when = 0 /\ acts = 0
    /\ timer = FALSE /\ rankTimer = FALSE /\ dragging = FALSE
    /\ inflight = NoQuestion /\ reads = {} /\ cache = {}
    /\ exposure = NoQuestion /\ panels = NoQuestion /\ href = NoQuestion
    /\ foot = NoFoot /\ banner = NoBanner
    /\ rankReads = EmptyBag /\ ranking = 0 /\ rankNote = [text |-> "none", at |-> 0]
    /\ asked = NoLink /\ overtaken = FALSE /\ searched = FALSE

-----------------------------------------------------------------------------
(* The operator.                                                           *)

\* refresh: the read waits for the debounce, the ranking for a settled instant.
Refresh(settled) == timer' = TRUE /\ rankTimer' = (rankTimer \/ settled)

Shows(next, settled) ==
    /\ view' = next
    /\ when' = next.at
    /\ Refresh(settled)
    /\ UNCHANGED <<file, answers, reach>>

\* The page has its incident: the default view, and the address over it.
Boot ==
    /\ ~booted /\ booted' = TRUE
    /\ LET link == view.entries[1]
       IN  Shows(Opened(file, link), TRUE) /\ asked' = link
    /\ UNCHANGED <<dragging, acts>>

\* Something that the operator does, which retires what a link asked for.
Acts == booted /\ acts < MaxActs /\ acts' = acts + 1 /\ UNCHANGED booted
Chooses == Acts /\ ~dragging /\ asked' = NoLink

Drag == \E t \in Travel(file, view.zoom).start .. Travel(file, view.zoom).end :
    /\ Acts /\ asked' = NoLink /\ dragging' = TRUE
    /\ Shows(SetInstant(view, t), FALSE)

\* The change event, which follows the last input.
Release ==
    /\ dragging /\ dragging' = FALSE
    /\ Shows(SetInstant(view, view.at), TRUE)
    /\ UNCHANGED <<booted, acts, asked>>

Key == \E t \in Travel(file, view.zoom).start .. Travel(file, view.zoom).end :
    Chooses /\ Shows(SetInstant(view, t), TRUE) /\ UNCHANGED dragging

Chip == \E t \in Markers(file) :
    Chooses /\ Shows(GoTo(file, view, t), TRUE) /\ UNCHANGED dragging

Step == \E direction \in {-1, 1} : \E t \in NextEvents(file, view, direction) :
    Chooses /\ Shows(GoTo(file, view, t), TRUE) /\ UNCHANGED dragging

Zoom == \E zoom \in {"day", "window"} :
    Chooses /\ Shows(SetDomain(file, view, zoom), TRUE) /\ UNCHANGED dragging

\* The address at which the page was before, or ahead of it.
Walk == \E here \in {view.here - 1, view.here + 1} \intersect DOMAIN view.entries :
    /\ Acts /\ ~dragging /\ asked' = view.entries[here]
    /\ Shows(ApplyView(file, [view EXCEPT !.here = here], view.entries[here]), TRUE)
    /\ UNCHANGED dragging

\* The picker forgets the exposure and leaves the panels to the next answer.
Pick == \E package \in ByPackage(file) \ {view.package} :
    /\ view.here < MaxEntries
    /\ Chooses
    /\ view' = Picked(view, package)
    /\ exposure' = NoQuestion
    /\ Refresh(TRUE)
    /\ UNCHANGED <<file, when, inflight, reads, cache, panels, foot, banner, href,
                   overtaken, reach, dragging>>

\* The search field renders the ranking again, and its note with it.
Search ==
    /\ Acts /\ ~dragging /\ ranking # 0
    /\ rankNote' = [text |-> "current", at |-> ranking]
    /\ searched' = TRUE
    /\ UNCHANGED <<file, view, when, timer, rankTimer, answers, rankReads, ranking, dragging, asked>>

-----------------------------------------------------------------------------
(* The exposure and its drawing.                                           *)

\* The rows ask for their footprint at the instant that the rail is at.
Paint(q) ==
    /\ exposure' = q /\ panels' = q /\ href' = q
    /\ when' = q.at
    /\ banner' = NoBanner
    /\ foot' = [at |-> view.at, text |-> "reading"]

Quiet == UNCHANGED <<file, booted, view, reach, dragging, acts, asked>>

\* Mutant: an answer from the cache does not end the debounce.
LoadTwice ==
    /\ timer /\ UNCHANGED <<timer, rankTimer>> /\ Quiet
    /\ Question \in cache
    /\ Paint(Question)
    /\ UNCHANGED <<inflight, reads, cache, overtaken>>

\* load, when the answer is remembered: a read that is under way stays so.
LoadFromCache ==
    /\ timer /\ timer' = FALSE /\ Quiet
    /\ Question \in cache
    /\ Paint(Question)
    /\ overtaken' = (overtaken \/ reads # {})
    /\ UNCHANGED <<rankTimer, inflight, reads, cache>>

\* Mutant: the read before is not aborted.
LoadBeside ==
    /\ timer /\ timer' = FALSE /\ Quiet
    /\ Question \notin cache
    /\ reads' = reads \union {Question}
    /\ inflight' = Question
    /\ overtaken' = FALSE
    /\ UNCHANGED <<when, rankTimer, cache, exposure, panels, foot, banner, href>>

\* load, when it has to ask: the read before is aborted, and says nothing.
LoadFromNode ==
    /\ timer /\ timer' = FALSE /\ Quiet
    /\ Question \notin cache
    /\ reads' = (reads \ {inflight}) \union {Question}
    /\ inflight' = Question
    /\ overtaken' = FALSE
    /\ UNCHANGED <<when, rankTimer, cache, exposure, panels, foot, banner, href>>

\* Mutant: the header keeps the instant of the rail.
AnswerUnderOldHeader(q) ==
    /\ reads' = reads \ {q} /\ inflight' = NoQuestion
    /\ cache' = (IF Cardinality(cache) > CacheSize THEN {} ELSE cache) \union {q}
    /\ exposure' = q /\ panels' = q /\ href' = Question
    /\ banner' = NoBanner
    /\ foot' = [at |-> view.at, text |-> "reading"]
    /\ Quiet /\ UNCHANGED <<when, timer, rankTimer, overtaken>>

\* Both replies of a read have come.  No one asks whether the rail has moved.
Answered(q) ==
    /\ reads' = reads \ {q} /\ inflight' = NoQuestion
    /\ cache' = (IF Cardinality(cache) > CacheSize THEN {} ELSE cache) \union {q}
    /\ Paint(q)
    /\ Quiet /\ UNCHANGED <<timer, rankTimer, overtaken>>

\* Mutant: the banner names the instant of the rail, and the links stay.
FailedHere(q) ==
    /\ reads' = reads \ {q}
    /\ banner' = [up |-> TRUE, at |-> IF exposure = NoQuestion THEN 0 ELSE view.at]
    /\ UNCHANGED <<exposure, href, panels, foot>>
    /\ Quiet /\ UNCHANGED <<when, timer, rankTimer, inflight, cache, overtaken>>

\* readFailed: the links go, and the panels are dated or emptied.
Failed(q) ==
    /\ reads' = reads \ {q}
    /\ banner' = [up |-> TRUE, at |-> exposure.at]
    /\ href' = NoQuestion
    /\ IF exposure = NoQuestion
       THEN panels' = NoQuestion /\ foot' = NoFoot
       ELSE UNCHANGED <<panels, foot>>
    /\ Quiet /\ UNCHANGED <<when, timer, rankTimer, inflight, cache, exposure, overtaken>>

\* The footprint came, or did not.  It checks the package, and not the instant.
Footprint == \E came \in BOOLEAN :
    /\ foot.text = "reading"
    /\ came /\ panels.package # view.package => foot' = [foot EXCEPT !.text = "left"]
    /\ came /\ panels.package = view.package => foot' = [foot EXCEPT !.text = "shown"]
    /\ ~came => foot' = [foot EXCEPT !.text = "unavailable"]
    /\ Quiet
    /\ UNCHANGED <<when, timer, rankTimer, inflight, reads, cache, exposure, panels, banner,
                   href, overtaken>>

-----------------------------------------------------------------------------
(* The ranking.                                                            *)

Scores == UNCHANGED <<rail, timer, answers, dragging, acts, asked>>

LoadRanking ==
    /\ rankTimer /\ rankTimer' = FALSE
    /\ rankNote' = [text |-> "scoring", at |-> 0]
    /\ rankReads' = rankReads (+) SetToBag({view.at})
    /\ searched' = FALSE
    /\ Scores /\ UNCHANGED ranking

\* Mutant: whatever ranking comes in is shown.
RankedWhenever(t) ==
    /\ rankReads' = rankReads (-) SetToBag({t})
    /\ ranking' = t /\ rankNote' = [text |-> "current", at |-> t]
    /\ Scores /\ UNCHANGED <<rankTimer, searched>>

\* A ranking of another instant than the rail's is dropped.
Ranked(t) ==
    /\ rankReads' = rankReads (-) SetToBag({t})
    /\ IF t = view.at
       THEN ranking' = t /\ rankNote' = [text |-> "current", at |-> t]
       ELSE UNCHANGED <<ranking, rankNote>>
    /\ Scores /\ UNCHANGED <<rankTimer, searched>>

\* A failure keeps the list there is, and says of when it is.
RankingFailed(t) ==
    /\ rankReads' = rankReads (-) SetToBag({t})
    /\ IF t = view.at THEN rankNote' = [text |-> "failed", at |-> ranking]
       ELSE UNCHANGED rankNote
    /\ Scores /\ UNCHANGED <<rankTimer, ranking, searched>>

-----------------------------------------------------------------------------
Operator == Drag \/ Key \/ Chip \/ Step \/ Zoom \/ Walk \/ Pick \/ Search

Exposures == LoadFromCache \/ LoadFromNode \/ \E q \in reads : Answered(q) \/ Failed(q)

Aside ==
    \/ Footprint
    \/ LoadRanking
    \/ \E t \in BagToSet(rankReads) : Ranked(t) \/ RankingFailed(t)

Browser == Boot \/ Release \/ Exposures \/ Aside

Next == Operator \/ Browser

\* Timers fire, a read ends, and a slider that is held is let go.
Spec == PageInit /\ [][Next]_vars /\ WF_vars(Browser)

-----------------------------------------------------------------------------
(* Properties.                                                             *)

Places == [package : Nat, at : Int]

\* Every variable has its type.
TypeOK ==
    /\ file \in Files /\ Accepted(file)
    /\ {booted, timer, rankTimer, dragging, overtaken, searched} \subseteq BOOLEAN
    /\ view.package \in Nat /\ view.at \in Int /\ view.zoom \in {"day", "window"}
    /\ view.notice \subseteq {"package", "unreadable", "outside"}
    /\ view.here \in DOMAIN view.entries /\ Len(view.entries) <= MaxEntries
    /\ {inflight, exposure, panels, href} \subseteq Places
    /\ reads \subseteq Places /\ cache \subseteq Places
    /\ IsABag(rankReads) /\ ranking \in Int
    /\ when \in Int /\ acts \in 0 .. MaxActs

AtRest == booted /\ ~timer /\ reads = {} /\ ~dragging

\* incident.py: a timeline that hides its own incident is rejected.  Every event
\* and the window lie in the domain, a derived domain begins before the window
\* opens, and the rail never leaves the stretch that the slider covers.
NoEventIsHidden ==
    LET domain == Domain(file)
    IN  /\ \A t \in Events(file) : domain.start <= t /\ t <= domain.end
        /\ ~IsDeclared(file) => domain.start < file.window.start
        /\ booted => /\ Travel(file, view.zoom).start <= view.at
                     /\ view.at <= Travel(file, view.zoom).end
                     /\ view.package \in ByPackage(file)

\* boot: without a link the page opens while the window is open; and after the
\* last publication and before the first clean successor if there is an instant
\* between the two inside the window.
OpensWhileArmed ==
    LET between(t) == /\ \A p \in Published(file) : p <= t
                      /\ \A r \in Remedied(file) : t < r
        opening == Opening(file)
    IN  /\ file.window.start <= opening /\ opening < file.window.end
        /\ (\E t \in file.window.start .. file.window.end - 1 : between(t)) => between(opening)
        /\ asked.how # "read" /\ booted /\ acts = 0 => view.at = opening

\* app.js: "When a link cannot be honoured exactly, the console says so".  Until
\* the operator moves, the question is the link's, or a notice says which part
\* of it is not; this holds of walking back as it does of opening.
LinkIsHonouredOrDisowned ==
    booted /\ asked # NoLink =>
        /\ asked.package \in {view.package, Unstated} \/ "package" \in view.notice
        /\ asked.how = "read" => asked.at = view.at \/ "outside" \in view.notice
        /\ asked.how = "garbled" => "unreadable" \in view.notice

\* "The view is addressable": the link that the operator would copy is to the
\* question on screen, and going back leads to a package that was on screen.
AddressIsTheQuestion ==
    booted =>
        /\ view.entries[view.here] = Link(view.package, view.at)
        /\ \A i \in DOMAIN view.entries \ {1} :
                view.entries[i].package # view.entries[i - 1].package
        /\ \A i \in DOMAIN view.entries : view.entries[i].package \in ByPackage(file)

\* When the page has come to rest and no read failed, what it shows is the
\* answer to its question, down to the footprints in the rows; unless an answer
\* from the cache was painted while a read was under way, which is not aborted.
ShowsWhatIsAsked ==
    AtRest /\ ~banner.up /\ ~overtaken =>
        /\ panels = Question
        /\ foot.text = "shown" => foot.at = view.at

\* readFailed: "the worst kind of stale" is an answer under another instant's
\* timestamp.  At rest, whatever overtook what, the panels are of the instant
\* above them, or the banner names theirs, or they are empty.
PanelsAreDated ==
    AtRest /\ panels # NoQuestion =>
        IF banner.up THEN banner.at = panels.at ELSE when = panels.at

\* renderExport: a packet exported from this page is a packet about this page;
\* and there is none to export under a failed read.
ExportIsOfThePanels ==
    /\ href # NoQuestion => href = panels
    /\ banner.up => href = NoQuestion

\* What is on screen, and what can be carried away from it, says of when it is.
EverythingIsDated == TypeOK /\ PanelsAreDated /\ ExportIsOfThePanels

\* "a panel that lags the playhead is worse than one that waits": at rest the
\* ranking is of the instant of the rail, or its note says that it failed and of
\* when it is; unless the search field has rendered that note away.
RankingIsOfTheInstant ==
    AtRest /\ ~rankTimer /\ rankReads = EmptyBag /\ ~searched =>
        /\ rankNote.text = "current" => ranking = view.at
        /\ rankNote.text = "failed" => rankNote.at = ranking
        /\ rankNote.text \in {"current", "failed"}

\* The page comes to rest, whatever fails and however fast the rail is moved.
PageSettles == []<>(AtRest /\ ~rankTimer /\ rankReads = EmptyBag /\ (panels # NoQuestion \/ banner.up))
=============================================================================
