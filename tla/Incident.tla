-------------------------------- MODULE Incident --------------------------------
(***************************************************************************)
(* incident.py: what is refused of an incident file, and what the console  *)
(* makes of the rest: the marked instants, the stretch of time that the    *)
(* scrubber travels over and the package it opens on.                      *)
(*                                                                         *)
(* A file is a record of its exposure window, its versions (package, wave, *)
(* publication and clean successor), the featured packages in order, the   *)
(* default package, the declared display domain and the disclosure.        *)
(* Packages are numbers in the order of their names; Unstated is a field   *)
(* that the file leaves out.                                               *)
(***************************************************************************)
EXTENDS Integers, Sequences, FiniteSets, FiniteSetsExt, Functions

CONSTANT Day    \* the length of a day

ASSUME DayAssumption == Day \in Nat \ {0}

Unstated == 0

ByPackage(file) == {v.package : v \in file.versions}
Remedied(file) == {v.remedied : v \in file.versions} \ {Unstated}
Published(file) == {v.published : v \in file.versions}

MidnightAtOrBefore(t) == (t \div Day) * Day

MidnightAtOrAfter(t) ==
    LET floor == MidnightAtOrBefore(t)
    IN  IF floor = t THEN floor ELSE floor + Day

\* The instants worth snapping to.  The burst is the two ends of wave 1, and
\* only featured packages keep marks of their own.
Markers(file) ==
    LET first == Min(Published(file))
        wave1 == {v.published : v \in {u \in file.versions : u.wave = 1}}
        named == {v.published : v \in {u \in file.versions : u.package \in Range(file.featured)}}
        burst == IF wave1 # {} /\ Max(wave1) > first THEN {Max(wave1)} ELSE {}
        fixes == IF Remedied(file) = {} THEN {}
                 ELSE {Min(Remedied(file)), Max(Remedied(file))}
    IN  {first} \union named \union burst \union fixes \union ({file.disclosed} \ {Unstated})

Events(file) == {file.window.start, file.window.end} \union Markers(file)

\* Mutant: the declared domain has to contain the window, and not the markers.
IsDeclaredForWindow(file) ==
    /\ file.domain.start < file.domain.end
    /\ file.domain.start <= file.window.start /\ file.window.end <= file.domain.end

\* A declared domain may only widen the view.
IsDeclaredWhole(file) ==
    /\ file.domain.start < file.domain.end
    /\ file.domain.start <= Min(Events(file)) /\ Max(Events(file)) <= file.domain.end

IsDeclared(file) == file.domain # [start |-> Unstated, end |-> Unstated]

\* The declared domain, or the whole days that hold the window and the markers,
\* with a day before a window that opens at midnight.
Domain(file) ==
    IF IsDeclared(file) THEN file.domain
    ELSE LET midnight == Min({MidnightAtOrBefore(t) : t \in Events(file)})
             start == IF midnight = file.window.start THEN midnight - Day ELSE midnight
         IN  [start |-> start,
              end |-> Max({MidnightAtOrAfter(t) : t \in Events(file)} \union {start + Day})]

DefaultPackage(file) ==
    IF file.default # Unstated THEN file.default
    ELSE IF file.featured # <<>> THEN file.featured[1]
    ELSE Min(ByPackage(file))

\* build_incident returns, raising no IncidentError.
Accepted(file) ==
    /\ file.versions # {}
    /\ \A v \in file.versions : v.remedied # Unstated => v.published <= v.remedied
    /\ file.window.start < file.window.end
    /\ Range(file.featured) \subseteq ByPackage(file)
    /\ IsDeclared(file) => IsDeclaredWhole(file)
    /\ DefaultPackage(file) \in ByPackage(file)
=============================================================================
