------------------------------ MODULE Visitor ------------------------------
(***************************************************************************)
(* Who visits the site: a user who submits one watch form after the other, *)
(* beside one entry of what the API lists (WatchMatch), or a reader of the *)
(* list of routes (RouteList). And what both may expect, stated from what  *)
(* they typed and from what they are shown.                                *)
(***************************************************************************)
EXTENDS WatchMatch, RouteList

CONSTANTS
  Chars,  \* the characters of what is listed and typed
  Forms   \* the entries, each with the set of the forms submitted beside it

Text == Seq(Chars)

\* What an input of type "time" sends.
Clock(h, m) == <<Digit(h \div 10), Digit(h % 10), Colon, Digit(m \div 10), Digit(m % 10)>>
Times == {<<>>} \cup {Clock(h, m) : h \in 0 .. 23, m \in 0 .. 59}

Departures == [hour : 0 .. 23, minute : 0 .. 59, weekday : 0 .. 6]
Locations  == [name : Text, city : Text]
APIEntries ==
  [pickup : Locations, pickupGroup : Text, return : Locations, returnGroup : Text,
   availableAt : Departures \cup {None}, carModel : Text]
WatchForms ==
  {f \in [origin : Text, destination : Text, earliest : Text, latest : Text, weekdays : Seq(Text)] :
     TrimSpace(f.earliest) \in Times /\ TrimSpace(f.latest) \in Times}

ASSUME VisitorAssumption ==
  /\ Digits \cup {Comma} \subseteq Chars
  /\ \A e \in DOMAIN Forms : e \in APIEntries /\ Forms[e] \subseteq WatchForms

VARIABLES entry, form

typing == <<entry, form>>

\* Who types a form looks at no list, and the other way round.
Typing == entry # None

VisitorInit ==
  /\ Init /\ form = None
  /\ entry = None \/ (entry \in DOMAIN Forms /\ rows = {})

Submit ==
  /\ Typing /\ form = None
  /\ form' \in Forms[entry]
  /\ UNCHANGED <<entry, vars>>

Discard ==
  /\ Typing /\ form # None
  /\ form' = None
  /\ UNCHANGED <<entry, vars>>

Walk == ~Typing /\ Next /\ UNCHANGED typing

VisitorNext == Submit \/ Discard \/ Walk
VisitorSpec == VisitorInit /\ [][VisitorNext]_<<typing, vars>>

-----------------------------------------------------------------------------
Both == Typing /\ ParseRoute(entry) # None /\ form # None /\ WatchOf(form) # None

\* The days chosen, as a set; times, compared as text; and a place, found in another.
Chosen(w) == {d \in 1 .. 7 : \E k \in DOMAIN w : TrimSpace(w[k]) = <<Digit(d)>>}
NotAfter(s, t) ==
  \/ s = t
  \/ \E k \in 1 .. 5 : /\ \A i \in 1 .. k - 1 : s[i] = t[i]
                       /\ s[k] # Colon /\ t[k] # Colon /\ Value(s[k]) < Value(t[k])
Occurs(w, s) ==
  \E i \in 0 .. Len(s) - Len(w) : \A k \in DOMAIN w : Lower(w[k]) = Lower(s[i + k])

\* A route is announced exactly when the place typed occurs in the place shown,
\* whatever the case, the departure reads between the times typed, and its day
\* is ticked or none is: from the form to handleWatchNewSubmit, the row and
\* matcher.Match, with Go's Sunday, blanks, repeated and invalid days.
MatchesAsTyped ==
  Both =>
    LET dep      == entry.availableAt
        departs  == Clock(dep.hour, dep.minute)
        earliest == TrimSpace(form.earliest)
        latest   == TrimSpace(form.latest)
    IN  Match(ParseRoute(entry), WatchOf(form)) <=>
          /\ Occurs(TrimSpace(form.origin), ParseRoute(entry).origin)
          /\ Occurs(TrimSpace(form.destination), ParseRoute(entry).destination)
          /\ earliest # <<>> => NotAfter(earliest, departs)
          /\ latest # <<>> => NotAfter(departs, latest)
          /\ Chosen(form.weekdays) = {} \/ ((dep.weekday + 6) % 7) + 1 \in Chosen(form.weekdays)

\* Opening the edit form and saving it as it is leaves the days of the watch as
\* they are: hasWeekday ticks the days buildWeekdays kept, no other.
EditKeepsDays ==
  Typing /\ form # None =>
    LET row   == BuildWeekdays(form.weekdays)
        saved == BuildWeekdays(Boxes(row))
    IN  \A dep \in [weekday : 0 .. 6] :
          /\ MatchDay(dep, [weekdays |-> saved]) <=> MatchDay(dep, [weekdays |-> row])
          /\ row # <<>> =>
               (MatchDay(dep, [weekdays |-> row]) <=> HasWeekday(row, <<Digit(ISOWeekday(dep.weekday))>>))

\* A location with a name is shown under the beginning of that name, whatever
\* separators it is made of: never under an empty string, which every watch
\* would miss, and so never under the name of its group.
ShownByName ==
  Typing /\ ParseRoute(entry) # None =>
    LET name  == TrimSpace(entry.pickup.name)
        shown == ParseRoute(entry).origin
    IN  name # <<>> => shown # <<>> /\ IsPrefix(shown, name) /\ shown = TrimSpace(shown)

\* What a watch on a place announces is listed by a search for that place, with
\* one exception: wherever the place occurs, a letter beyond ASCII is typed in the
\* other case than shown. strings.ToLower of matcher.Match folds those, the LIKE of
\* SearchRoutes does not; blanks and underscores make no difference.
OtherCase(w, s) ==
  \A i \in 0 .. Len(s) - Len(w) :
    (\A k \in DOMAIN w : Lower(w[k]) = Lower(s[i + k])) =>
      \E k \in DOMAIN w : w[k] \in Beyond /\ w[k] # s[i + k]
ListedOr(typed, place) ==
  SearchFinds(typed, ParseRoute(entry)) \/ OtherCase(TrimSpace(typed), place)
SearchListsMatches ==
  Both /\ Match(ParseRoute(entry), WatchOf(form)) =>
    /\ ListedOr(form.origin, ParseRoute(entry).origin)
    /\ ListedOr(form.destination, ParseRoute(entry).destination)
=============================================================================
