----------------------------- MODULE WatchMatch -----------------------------
(***************************************************************************)
(* From what the API lists and what the user types to "does this route     *)
(* match this watch": displayName and parseRoutes, the normalisation of    *)
(* the watch form, and matcher.Match. Strings are sequences of characters, *)
(* over an alphabet whose only upper case letters are A, B and the Swedish *)
(* AA (for the A with a ring); a strings function is modelled by what it   *)
(* does.                                                                   *)
(***************************************************************************)
EXTENDS Integers, SequencesExt

CONSTANT None  \* an error, a zero time, a form that is refused

ASSUME WatchMatchAssumption == None \notin Nat

Blank == " "
Comma == ","
Colon == ":"

Digit(n) == <<"0", "1", "2", "3", "4", "5", "6", "7", "8", "9">>[n + 1]
Digits   == {Digit(n) : n \in 0 .. 9}
Value(c) == CHOOSE n \in 0 .. 9 : Digit(n) = c

-----------------------------------------------------------------------------
(* strings, strconv                                                        *)

TrimSpace(s) ==
  LET solid == {i \in DOMAIN s : s[i] # Blank}
  IN  IF solid = {} THEN <<>>
      ELSE SubSeq(s, CHOOSE i \in solid : \A j \in solid : i <= j,
                     CHOOSE i \in solid : \A j \in solid : i >= j)

ASCIILower(c) == CASE c = "A" -> "a" [] c = "B" -> "b" [] OTHER -> c

\* The letters beyond ASCII have a lower case too.
Beyond     == {"AA", "aa"}
Lower(c)   == IF c \in Beyond THEN "aa" ELSE ASCIILower(c)
ToLower(s) == [i \in DOMAIN s |-> Lower(s[i])]

\* strings.Split on one character, as the set of the fields.
Fields(s, c) ==
  {SubSeq(s, cut[1], cut[2] - 1) : cut \in
     {p \in (1 .. Len(s) + 1) \X (1 .. Len(s) + 1) :
        /\ p[1] <= p[2]
        /\ p[1] = 1 \/ s[p[1] - 1] = c
        /\ p[2] = Len(s) + 1 \/ s[p[2]] = c
        /\ \A k \in p[1] .. p[2] - 1 : s[k] # c}}

\* strconv.Atoi of unsigned numbers: None for an error.
Atoi(s) ==
  IF s = <<>> \/ \E i \in DOMAIN s : s[i] \notin Digits THEN None
  ELSE LET read[k \in 0 .. Len(s)] == IF k = 0 THEN 0 ELSE 10 * read[k - 1] + Value(s[k])
       IN  read[Len(s)]

-----------------------------------------------------------------------------
(* fetcher: parseRoutes                                                    *)

Separators == << <<Blank, "/", Blank>>, <<"/">>, <<Blank, "&", Blank>> >>

\* Mutant: a separator may be the first thing in the name.
DisplayNameAnywhere(l) ==
  LET name == TrimSpace(l.name)
      cuts == {i \in 1 .. 3 : Separators[i] \in SubSeqs(name)}
  IN  IF name = <<>> THEN TrimSpace(l.city)
      ELSE IF cuts = {} THEN name
      ELSE LET sep == Separators[CHOOSE i \in cuts : \A j \in cuts : i <= j]
           IN  TrimSpace(SubSeq(name, 1, IndexFirstSubSeq(sep, name) - 1))

\* The name up to the first separator, in the order of Separators, that occurs
\* after its first character; the city if there is no name.
DisplayName(l) ==
  LET name == TrimSpace(l.name)
      cuts == {i \in 1 .. 3 : /\ Separators[i] \in SubSeqs(name)
                              /\ IndexFirstSubSeq(Separators[i], name) > 1}
  IN  IF name = <<>> THEN TrimSpace(l.city)
      ELSE IF cuts = {} THEN name
      ELSE LET sep == Separators[CHOOSE i \in cuts : \A j \in cuts : i <= j]
           IN  TrimSpace(SubSeq(name, 1, IndexFirstSubSeq(sep, name) - 1))

\* One entry of a group; an entry without a departure time is skipped.
Place(l, groupName) == IF DisplayName(l) = <<>> THEN groupName ELSE DisplayName(l)
ParseRoute(entry) ==
  IF entry.availableAt = None THEN None
  ELSE [origin      |-> Place(entry.pickup, entry.pickupGroup),
        destination |-> Place(entry.return, entry.returnGroup),
        departureAt |-> entry.availableAt,
        carModel    |-> entry.carModel]

-----------------------------------------------------------------------------
(* web: the watch form                                                     *)

ISODays == {<<Digit(d)>> : d \in 1 .. 7}

\* Mutant: duplicates are not noticed by the separator.
AddDayNoComma(out, day) == IF day \in ISODays THEN out \o day ELSE out

AddDay(out, day) ==
  IF day \notin ISODays \/ day \in Fields(out, Comma) THEN out
  ELSE IF out = <<>> THEN day
  ELSE out \o <<Comma>> \o day

\* Valid days in the order given, without duplicates, joined by commas.
BuildWeekdays(vals) ==
  LET kept[k \in 0 .. Len(vals)] ==
        IF k = 0 THEN <<>> ELSE AddDay(kept[k - 1], TrimSpace(vals[k]))
  IN  kept[Len(vals)]

\* What handleWatchNewSubmit stores of a form; None if it refuses it.
WatchOf(form) ==
  IF TrimSpace(form.origin) = <<>> \/ TrimSpace(form.destination) = <<>> THEN None
  ELSE [origin       |-> TrimSpace(form.origin),
        destination  |-> TrimSpace(form.destination),
        earliestTime |-> TrimSpace(form.earliest),
        latestTime   |-> TrimSpace(form.latest),
        weekdays     |-> BuildWeekdays(form.weekdays)]

\* The boxes the edit form ticks.
HasWeekday(weekdays, day) == \E d \in Fields(weekdays, Comma) : TrimSpace(d) = day

\* What the edit form sends if nothing is changed: its boxes stand in this order.
Boxes(weekdays) ==
  LET box(d) == IF HasWeekday(weekdays, <<Digit(d)>>) THEN << <<Digit(d)>> >> ELSE <<>>
  IN  box(1) \o box(2) \o box(3) \o box(4) \o box(5) \o box(6) \o box(7)

-----------------------------------------------------------------------------
(* db: the search of the route list                                        *)

AnyOne == "_"

\* Mutant: the pattern is "q%".
LikeAtStart(q, s) ==
  /\ Len(q) <= Len(s)
  /\ \A k \in DOMAIN q : q[k] = AnyOne \/ ASCIILower(q[k]) = ASCIILower(s[k])

\* SQL's LIKE "%q%", for a q without "%": AnyOne stands for any one character,
\* and SQLite takes either case of a letter if it is one of ASCII.
Like(q, s) ==
  \E i \in 0 .. Len(s) - Len(q) :
    \A k \in DOMAIN q : q[k] = AnyOne \/ ASCIILower(q[k]) = ASCIILower(s[i + k])

\* The rows that handleRoutes lists for what was typed.
SearchFinds(typed, route) ==
  LET q == TrimSpace(typed)
  IN  q # <<>> => Like(q, route.origin) \/ Like(q, route.destination) \/ Like(q, route.carModel)

-----------------------------------------------------------------------------
(* matcher                                                                 *)

\* "HH:MM" to minutes since midnight: 0 without a colon, and 0 for a part that
\* is no number.
ParseHHMM(s) ==
  LET colons == {i \in DOMAIN s : s[i] = Colon}
      number(t) == IF Atoi(t) = None THEN 0 ELSE Atoi(t)
  IN  IF colons = {} THEN 0
      ELSE LET c == CHOOSE i \in colons : \A j \in colons : i <= j
           IN  number(SubSeq(s, 1, c - 1)) * 60 + number(SubSeq(s, c + 1, Len(s)))

\* Mutant: Go's Sunday is 0.
ISOWeekdayNoSunday(wd) == wd

\* Go counts from Sunday = 0.
ISOWeekday(wd) == IF wd = 0 THEN 7 ELSE wd

WeekdayAllowed(wd, list) == \E part \in Fields(list, Comma) : Atoi(TrimSpace(part)) = wd

MatchTime(dep, watch) ==
  /\ watch.earliestTime # <<>> => dep.hour * 60 + dep.minute >= ParseHHMM(watch.earliestTime)
  /\ watch.latestTime # <<>> => dep.hour * 60 + dep.minute <= ParseHHMM(watch.latestTime)

MatchDay(dep, watch) ==
  watch.weekdays # <<>> => WeekdayAllowed(ISOWeekday(dep.weekday), watch.weekdays)

MatchPlace(name, wanted) == wanted # <<>> => ToLower(wanted) \in SubSeqs(ToLower(name))

Match(route, watch) ==
  /\ MatchPlace(route.origin, watch.origin)
  /\ MatchPlace(route.destination, watch.destination)
  /\ MatchTime(route.departureAt, watch)
  /\ MatchDay(route.departureAt, watch)
=============================================================================
