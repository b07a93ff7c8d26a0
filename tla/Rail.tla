---------------------------------- MODULE Rail ----------------------------------
(***************************************************************************)
(* The rail of app.js: the question on screen (a package and an instant),  *)
(* the zoom, the notice about a link, and the address, which is a stack of *)
(* history entries.  Every operator takes the view and gives the view that *)
(* the function of its name leaves; they run to their end, as handlers do. *)
(***************************************************************************)
EXTENDS Incident

CONSTANTS
    Before, After   \* what the window zoom adds on either side: one hour, three hours

ASSUME RailAssumption == Before \in Nat /\ After \in Nat

\* A link, and a history entry: how = "none" names no instant, "garbled" one that cannot be read.
Link(package, at) == [package |-> package, at |-> at, how |-> "read"]

Clamp(t, domain) == Min({Max({t, domain.start}), domain.end})

\* state.domain, which setDomain keeps in step with the zoom.
Travel(file, zoom) ==
    IF zoom = "window"
    THEN [start |-> file.window.start - Before, end |-> file.window.end + After]
    ELSE Domain(file)

\* pushState drops the entries ahead; replaceState changes the current one.
WriteUrl(view, push) ==
    IF push
    THEN [view EXCEPT !.entries = Append(SubSeq(@, 1, view.here), Link(view.package, view.at)),
                      !.here = @ + 1]
    ELSE [view EXCEPT !.entries[view.here] = Link(view.package, view.at)]

ClearLinkNotice(view) == [view EXCEPT !.notice = {}]

\* Mutant: the address is written before the instant is set.
WrittenFirst(view, t) == [ClearLinkNotice(WriteUrl(view, FALSE)) EXCEPT !.at = t]

SetInstant(view, t) == WriteUrl(ClearLinkNotice([view EXCEPT !.at = t]), FALSE)

SetDomain(file, view, zoom) ==
    SetInstant([view EXCEPT !.zoom = zoom], Clamp(view.at, Travel(file, zoom)))

\* A chip: an event outside the zoom is shown on the whole domain.
GoTo(file, view, t) ==
    LET travel == Travel(file, view.zoom)
        there == IF t < travel.start \/ t > travel.end THEN SetDomain(file, view, "day") ELSE view
    IN  SetInstant(there, t)

\* nextEvent: the nearest marker more than a second away, if there is one.
NextEvents(file, view, direction) ==
    IF direction > 0
    THEN LET ahead == {t \in Markers(file) : t > view.at + 1}
         IN  {t \in ahead : t = Min(ahead)}
    ELSE LET behind == {t \in Markers(file) : t < view.at - 1}
         IN  {t \in behind : t = Max(behind)}

NoteLink(file, view, link) ==
    [view EXCEPT !.notice =
        (IF link.package # Unstated /\ link.package \notin ByPackage(file) THEN {"package"} ELSE {})
        \union (IF link.how = "garbled" THEN {"unreadable"}
                ELSE IF link.how = "read" /\ link.at # view.at THEN {"outside"} ELSE {})]

Asking(file, view, link) ==
    [view EXCEPT !.package = IF link.package \in ByPackage(file) THEN link.package ELSE @,
                 !.at = IF link.how = "read" THEN link.at ELSE @]

\* Mutant: the link is noted and then applied.
NotedFirst(file, view, link) ==
    SetDomain(file, NoteLink(file, Asking(file, view, link), link), view.zoom)

ApplyView(file, view, link) ==
    NoteLink(file, SetDomain(file, Asking(file, view, link), view.zoom), link)

\* Mutant: the stretch ends with the window, whatever was remediated.
OpeningToTheEnd(file) ==
    LET last == Max(Published(file) \union {file.window.start})
        opening == IF last < file.window.end THEN (last + file.window.end) \div 2
                   ELSE (file.window.start + file.window.end) \div 2
    IN  Clamp(opening, file.window)

\* The instant that boot opens on when no link names one: half-way between the
\* last publication and the first clean successor, inside the window.
Opening(file) ==
    LET last == Max(Published(file) \union {file.window.start})
        firstRemedy == Min(Remedied(file) \union {file.window.end})
        opening == IF last < firstRemedy THEN (last + firstRemedy) \div 2
                   ELSE (file.window.start + file.window.end) \div 2
    IN  Clamp(opening, file.window)

\* boot, once the incident has come: the default view, and the link over it.
Opened(file, link) ==
    ApplyView(file,
              [package |-> DefaultPackage(file), at |-> Opening(file), zoom |-> "day",
               notice |-> {}, entries |-> <<link>>, here |-> 1],
              link)

\* The package select.
Picked(view, package) == WriteUrl(ClearLinkNotice([view EXCEPT !.package = package]), TRUE)
=============================================================================
