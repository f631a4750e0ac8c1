---------------------------- MODULE AttributeValues ----------------------------
(***************************************************************************)
(* AttributeValue: a union of a std::string, a bool and an int with a      *)
(* type, which constructs and destroys its string by hand.  Objects are    *)
(* copied and moved as an attribute goes from the API to the map of a      *)
(* span, and on to SpanDatas.                                              *)
(***************************************************************************)
EXTENDS Integers, Sequences

CONSTANTS
  Slots,     \* places for an AttributeValue
  Arguments, \* what a program may pass for an AttributeValueRef: its C++ type and value
  IntWidth,  \* bits of an int64_t
  MaxOps     \* bound on the calls

ASSUME ArgumentsAssumption ==
  \A argument \in Arguments :
    argument.of \in {"string_view", "char*", "basic_string", "bool", "integral"}

VARIABLES
  type_,   \* of the object in each slot, or "dead"
  word,    \* bool_value_ or int_value_ of each slot
  strings, \* the std::strings constructed in each slot and not destroyed, last first
  meant,   \* history: the ref that each object should be equal to: {ref}, or {} for any
  ops      \* history: the number of calls

valueVars == <<type_, word, strings, meant, ops>>

----------------------------------------------------------------------------
\* AttributeValueRef, which a program never names: it is constructed from a string of
\* some kind, a bool, or an integer of any type but bool, which is converted.
AsInt64(value) ==
  LET word64 == value % 2^IntWidth IN
  IF word64 < 2^(IntWidth - 1) THEN word64 ELSE word64 - 2^IntWidth

AttributeValueRef(argument) ==
  CASE argument.of \in {"string_view", "char*", "basic_string"} ->
         [type |-> "string", value |-> argument.value]
    [] argument.of = "bool" -> [type |-> "bool", value |-> argument.value]
    [] argument.of = "integral" -> [type |-> "int", value |-> AsInt64(argument.value)]

\* Its operator==, which looks at the member of the type only.
RefsEqual(ref, v) == ref.type = v.type /\ ref.value = v.value

Refs == {AttributeValueRef(argument) : argument \in Arguments}

----------------------------------------------------------------------------
Alive(slot) == type_[slot] # "dead"

\* The accessors, of an object with the type asked for.
ValueOf(slot) == IF type_[slot] = "string" THEN Head(strings[slot]) ELSE word[slot]

\* The switch of the constructors and assignments: the string is made with new.
Place(slot, type, value, from_strings) ==
  /\ type_' = [type_ EXCEPT ![slot] = type]
  /\ IF type = "string"
     THEN strings' = [from_strings EXCEPT ![slot] = <<value>> \o @] /\ UNCHANGED word
     ELSE strings' = from_strings /\ word' = [word EXCEPT ![slot] = value]

\* ~AttributeValue destroys a string if the type says that there is one.
Destroyed(slot) ==
  IF type_[slot] = "string" THEN [strings EXCEPT ![slot] = Tail(@)] ELSE strings

\* What is left of the strings when one is moved from: any value.
MovedFrom(from_strings, from) ==
  IF type_[from] = "string"
  THEN {[from_strings EXCEPT ![from] = <<v>> \o Tail(@)] : v \in {Head(strings[from]), 0}}
  ELSE {from_strings}

ValueCall == ops < MaxOps /\ ops' = ops + 1

\* The value takes a copy of what the ref refers to.
Construct(slot, ref) ==
  /\ ValueCall /\ ~Alive(slot)
  /\ Place(slot, ref.type, ref.value, strings)
  /\ meant' = [meant EXCEPT ![slot] = {ref}]

CopyConstruct(to, from) ==
  /\ ValueCall /\ ~Alive(to) /\ Alive(from)
  /\ Place(to, type_[from], ValueOf(from), strings)
  /\ meant' = [meant EXCEPT ![to] = meant[from]]

\* A bool or an int stays as it is when it is moved.
MovedMeaning(from) == IF type_[from] = "string" THEN {} ELSE meant[from]

MoveConstruct(to, from) ==
  /\ ValueCall /\ ~Alive(to) /\ Alive(from)
  /\ \E after \in MovedFrom(strings, from) : Place(to, type_[from], ValueOf(from), after)
  /\ meant' = [meant EXCEPT ![to] = meant[from], ![from] = MovedMeaning(from)]

\* Nothing in the library assigns an object to itself, which would read the string
\* that has just been destroyed.
CopyAssign(to, from) ==
  /\ ValueCall /\ Alive(to) /\ Alive(from) /\ to # from
  /\ Place(to, type_[from], ValueOf(from), Destroyed(to))
  /\ meant' = [meant EXCEPT ![to] = meant[from]]

MoveAssign(to, from) ==
  /\ ValueCall /\ Alive(to) /\ Alive(from) /\ to # from
  /\ \E after \in MovedFrom(Destroyed(to), from) : Place(to, type_[from], ValueOf(from), after)
  /\ meant' = [meant EXCEPT ![to] = meant[from], ![from] = MovedMeaning(from)]

Destroy(slot) ==
  /\ ValueCall /\ Alive(slot)
  /\ strings' = Destroyed(slot)
  /\ type_' = [type_ EXCEPT ![slot] = "dead"]
  /\ UNCHANGED <<word, meant>>

\* operator==
Equal(slot, other) == type_[slot] = type_[other] /\ ValueOf(slot) = ValueOf(other)

ValuesInit ==
  /\ type_ = [slot \in Slots |-> "dead"] /\ word = [slot \in Slots |-> 0]
  /\ strings = [slot \in Slots |-> <<>>]
  /\ meant = [slot \in Slots |-> {}] /\ ops = 0

ValuesNext ==
  \/ \E slot \in Slots, ref \in Refs : Construct(slot, ref)
  \/ \E to, from \in Slots : CopyConstruct(to, from) \/ MoveConstruct(to, from)
                             \/ CopyAssign(to, from) \/ MoveAssign(to, from)
  \/ \E slot \in Slots : Destroy(slot)

ValuesSpec == ValuesInit /\ [][ValuesNext]_valueVars

----------------------------------------------------------------------------
\* In a slot there is one string while it holds an object of that type and none
\* otherwise, so that no string is leaked or destroyed twice; an object has the type
\* and value it was given, through any copies and moves, unless its string was moved
\* out; and objects compare equal if the refs do that they were made of.
ValuesKept ==
  /\ \A slot \in Slots : Len(strings[slot]) = IF type_[slot] = "string" THEN 1 ELSE 0
  /\ \A slot \in {s \in Slots : Alive(s) /\ meant[s] # {}} :
       meant[slot] = {[type |-> type_[slot], value |-> ValueOf(slot)]}
  /\ \A slot, other \in {s \in Slots : Alive(s) /\ meant[s] # {}} :
       Equal(slot, other) <=>
         \E ref \in meant[slot], v \in meant[other] : RefsEqual(ref, v)
=============================================================================
