------------------------------ MODULE MCDressing ------------------------------
(* Lists of at most three sets, of weights that fit four bits or wrap;       *)
(* latencies whose halves and outliers fall between whole milliseconds; JSON *)
(* values of every type and lists of two; and names of every convention.     *)
EXTENDS Dressing

MCSet(w, e, c, t) == [weight |-> w, error |-> e, code |-> c, tags |-> t]

Number(halves) == Json("number", halves, <<>>)
Codes == {Absent, Number(4), Number(9), Number(16), Json("string", 1, <<>>), Json("null", 0, <<>>)}

\* MaxInt64 is 7: 14 halves are the largest int, -16 the smallest.
Scalars ==
  {Number(h) : h \in {-18, -16, 2, 3, 14, 16, 18}} \cup
  {Json("bool", 1, <<>>), Json("string", 1, <<>>), Json("null", 0, <<>>),
   Json("object", 0, <<>>), Json("array", 0, <<>>)}
Values ==
  Scalars \cup {Json("array", 0, xs) : xs \in {<<>>} \cup (Scalars \X Scalars)}

Spell(l, c) == [letters |-> l, case |-> c]
Spellings == {Spell("get", "upper"), Spell("get", "mixed"), Spell("publish", "mixed"), Spell("/x", "lower")}
Names == {<<>>} \cup {<<u>> : u \in Spellings} \cup (Spellings \X Spellings) \cup {<<u, u, u>> : u \in Spellings}

OneName == {<<Spell("get", "upper"), Spell("/x", "lower")>>}
OneLatency == {[p50 |-> 1, p99 |-> 1, rate |-> FALSE, multiplier |-> 4]}

\* Event sets.
MCEvents(ws) == [i \in DOMAIN ws |-> [weight |-> ws[i]]]
NoEvents == {<<>>}
EventLists == {MCEvents(ws) : ws \in {<<>>, <<0>>, <<2>>, <<0, 7>>, <<7, 7>>, <<7, 7, 2>>, <<1, -1, 3>>}}

\* Picks and outcomes.
SetLists ==
  {<<>>} \cup
  {<<MCSet(v, e, Number(10), Absent), MCSet(w, "false", c, Absent)>> :
     v \in {0, 1, 7}, w \in {0, 2, 7}, e \in {"true", "absent"}, c \in Codes} \cup
  {<<MCSet(u, "absent", Absent, Absent), MCSet(v, "true", Number(4), Absent),
     MCSet(w, "other", Number(8), Absent)>> : u \in {-1, 0, 3}, v \in {1, 7}, w \in {0, 2, 7}}

MCInputs ==
  {[svcSets |-> SetLists, routeSets |-> SetLists, events |-> NoEvents, latency |-> OneLatency,
    name |-> OneName],
   [svcSets |-> {<<>>}, routeSets |-> {<<>>}, events |-> EventLists, latency |-> OneLatency,
    name |-> OneName],
   [svcSets |-> {<<>>}, routeSets |-> {<<>>}, events |-> NoEvents, name |-> OneName,
    latency |-> [p50 : 0..3, p99 : 1..3, rate : BOOLEAN, multiplier : {3, 4, 5, 8}]],
   [svcSets |-> {<<MCSet(1, "absent", Absent, Number(2))>>}, events |-> NoEvents,
    latency |-> OneLatency, name |-> OneName,
    routeSets |-> {<<MCSet(1, "absent", Absent, t)>> : t \in Values}],
   [svcSets |-> {<<>>}, routeSets |-> {<<>>}, events |-> NoEvents, latency |-> OneLatency,
    name |-> Names]}

=============================================================================
