------------------------------ MODULE Attributes ------------------------------
(***************************************************************************)
(* The attributes of a span: telemetry.ConvertAttributes, which turns a    *)
(* decoded JSON value into a typed attribute, and routeAttributes, which   *)
(* derives conventional attributes from the name of a route.               *)
(*                                                                         *)
(* A JSON value is a record of its type, a number and, for an array, its   *)
(* elements. The number of a JSON number counts halves, so that there are  *)
(* fractions; that of a boolean is 0 or 1, that of a string names it, 0    *)
(* the empty one. An attribute is a list or not, of pairs of the element's *)
(* type and number. The types that JSON does not decode to are left out.   *)
(***************************************************************************)
EXTENDS Integers, SequencesExt

CONSTANT MaxInt64       \* what the code's int holds

ASSUME MaxInt64Assumption == MaxInt64 \in Nat

VARIABLE overflow       \* input: what the machine makes of a float an int cannot hold

MinInt64 == -MaxInt64 - 1

\* Of an array in an array nothing more is seen.
JsonType == {"absent", "bool", "string", "number", "null", "object", "array"}
Item == [type : JsonType \ {"absent"}, number : Int, elems : {<<>>}]
Value == [type : JsonType, number : Int, elems : Seq(Item)]

Json(type, number, elems) == [type |-> type, number |-> number, elems |-> elems]
Absent == Json("absent", 0, <<>>)

\* Either end, as the architecture has it: Go leaves it open.
OverflowInit == overflow \in {MinInt64, MaxInt64}

-----------------------------------------------------------------------------
(* ConvertAttributes *)

Trunc(halves) == IF halves >= 0 THEN halves \div 2 ELSE -((-halves) \div 2)

\* int(f) for a float of so many halves.
Int64(halves) == IF Trunc(halves) \in MinInt64..MaxInt64 THEN Trunc(halves) ELSE overflow

\* isIntegral: math.MaxInt64 becomes a float, which rounds it up by one.
IsIntegral(x) == x.number % 2 = 0 /\ x.number >= 2 * MinInt64 /\ x.number <= 2 * (MaxInt64 + 1)

None == [list |-> FALSE, elems |-> <<>>]
Scalar(e) == [list |-> FALSE, elems |-> <<e>>]
List(xs, Element(_)) == [list |-> TRUE, elems |-> [i \in DOMAIN xs |-> Element(xs[i])]]

Plain(x) == <<x.type, x.number>>
AsInt(x) == <<"int", Int64(x.number)>>
AsFloat(x) == <<"float", x.number>>

stringify(x) ==
  CASE x.type = "string"             -> Plain(x)
    [] x.type = "bool"               -> <<"text of bool", x.number>>
    [] x.type = "number"             ->
         IF IsIntegral(x) THEN <<"text of int", Int64(x.number)>> ELSE <<"text of float", x.number>>
    [] x.type = "null"               -> <<"string", 0>>
    [] x.type \in {"array", "object"} -> <<"unsupported", 0>>

All(xs, type) == \A i \in DOMAIN xs : xs[i].type = type

\* Mutant: the first number decides for all of them.
AllIntegralFirst(xs) == IsIntegral(xs[1])

AllIntegral(xs) == \A i \in DOMAIN xs : IsIntegral(xs[i])

\* Lists are homogeneous: of the type of the first element, or else of strings.
convertSlice(xs) ==
  CASE xs = <<>>                               -> None
    [] xs # <<>> /\ (All(xs, "bool") \/ All(xs, "string")) -> List(xs, Plain)
    [] xs # <<>> /\ All(xs, "number")          ->
         IF AllIntegral(xs) THEN List(xs, AsInt) ELSE List(xs, AsFloat)
    [] OTHER                                   -> List(xs, stringify)

\* None when the value is dropped.
convertOne(x) ==
  CASE x.type \in {"absent", "null", "object"} -> None
    [] x.type \in {"bool", "string"}           -> Scalar(Plain(x))
    [] x.type = "number" -> Scalar(IF IsIntegral(x) THEN AsInt(x) ELSE AsFloat(x))
    [] x.type = "array"                        -> convertSlice(x.elems)

-----------------------------------------------------------------------------
(* routeAttributes: a name is the sequence of its words, a word the letters  *)
(* and how they are cased; an attribute is a key and a sequence of words.    *)

httpMethods == {"get", "post", "put", "patch", "delete", "head", "options", "trace", "connect"}
operations == {"publish", "send", "consume", "receive", "process"}

Word == [letters : STRING, case : STRING]

Cased(word, case) == [word EXCEPT !.case = case]

isEntryPoint(spanKind) == spanKind \in {"server", "consumer"}

\* Mutant: the method is looked up as it is written.
splitHTTPRouteAsWritten(name) ==
  Len(name) >= 2 /\ name[1].letters \in httpMethods /\ name[1].case = "upper"

splitHTTPRoute(name) == Len(name) >= 2 /\ name[1].letters \in httpMethods

splitMessagingRoute(name) == Len(name) >= 2 /\ name[1].letters \in operations

routeAttributes(name, spanKind) ==
  CASE name = <<>> -> {}
    [] splitHTTPRoute(name) ->
         {<<"http.request.method", <<Cased(name[1], "upper")>>>>, <<"http.route", Tail(name)>>}
         \cup (IF isEntryPoint(spanKind) THEN {<<"url.path", Tail(name)>>} ELSE {})
    [] ~splitHTTPRoute(name) /\ splitMessagingRoute(name) ->
         {<<"messaging.operation.name", <<Cased(name[1], "lower")>>>>,
          <<"messaging.destination.name", Tail(name)>>}
    [] OTHER -> {<<"db.operation.name", name>>}

=============================================================================
