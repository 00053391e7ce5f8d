----------------------------- MODULE MCVisitor -----------------------------
(***************************************************************************)
(* Visitor with entries and forms to try: days and times at their          *)
(* boundaries, and every short name made of separators.                    *)
(***************************************************************************)
EXTENDS Visitor

SampleChars == Digits \cup {"a", "b", "c", "g", "x", "A", "B", "AA", "aa", "_", "/", "&", Blank, Comma, Colon}

At(h, m, wd) == [hour |-> h, minute |-> m, weekday |-> wd]
Named(n) == [name |-> n, city |-> <<"b">>]
Entry(n, dep) == [pickup |-> Named(n), pickupGroup |-> <<"g">>, return |-> Named(<<"b">>),
                  returnGroup |-> <<"g">>, availableAt |-> dep, carModel |-> <<"c">>]
Form(o, e, l, w) == [origin |-> o, destination |-> <<"B">>, earliest |-> e, latest |-> l,
                     weekdays |-> w]

TypedEntries ==
  {Entry(<<"A", "b", "/", "B">>, dep) :
     dep \in {At(10, 0, wd) : wd \in 0 .. 6}
               \cup {At(h, m, 3) : h \in {0, 9, 10, 23}, m \in {0, 5, 59}}}
    \cup {Entry(<<"a">>, None)}
    \cup {Entry(n, At(10, 0, 3)) : n \in {<<"AA", "b">>, <<"b", "aa", "_">>, <<"AA", "aa">>}}

TypedTimes == {<<>>, <<"0", "0", ":", "0", "0">>, <<"0", "9", ":", "5", "9">>,
               <<" ", "1", "0", ":", "0", "0">>, <<"2", "3", ":", "5", "9">>}
TypedForms ==
  {Form(o, e, l, <<>>) : o \in {<<" ">>, <<"a">>, <<"B", " ">>, <<"b", "a">>},
                         e \in TypedTimes, l \in TypedTimes}
    \cup {Form(o, <<>>, <<>>, <<>>) : o \in {<<"aa">>, <<"AA">>, <<"aa", "B">>, <<"aa", "_">>, <<"_">>}}
    \cup {Form(<<"a">>, <<>>, <<>>, w) :
            w \in BoundedSeq({<<"1">>, <<" ", "3">>, <<"7">>, <<"8">>, <<"x">>}, 3)}

NamedEntries == {Entry(n, At(10, 0, 3)) : n \in BoundedSeq({"a", " ", "/", "&"}, 6)}
NamedForms == {Form(<<"a">>, <<>>, <<>>, <<>>)}

SampleForms ==
  [e \in TypedEntries \cup NamedEntries |-> IF e \in TypedEntries THEN TypedForms ELSE NamedForms]
=============================================================================
