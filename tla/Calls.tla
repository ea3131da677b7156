-------------------------------- MODULE Calls --------------------------------
(***************************************************************************)
(* Functions written in Go: the builder with which a program declares the *)
(* signatures a function dispatches on, the call that selects one of them,*)
(* and what the caller is told when none takes the arguments               *)
(* (src/internal/function.go, CallableWith of src/types/callabletype.go).  *)
(*                                                                         *)
(* declared keeps what the program wrote, in the order in which it wrote  *)
(* it; only the properties look at it.                                     *)
(***************************************************************************)
EXTENDS Mismatches

LOCAL INSTANCE SequencesExt

CONSTANTS
  ParamTypes,    \* types of parameters, References among them
  TypeTexts,     \* name of a Reference -> the type that ParseType makes of it
  Blocks,        \* types of the blocks that a dispatch may expect
  Arguments,     \* values given as arguments
  Lambdas,       \* signatures of the blocks given
  Checked,       \* types that AssertInstance and AssertAssignable are given
  CheckedValues, \* values that AssertInstance is given
  MaxParams,     \* parameters of all dispatches together
  MaxDispatches,
  MaxArguments

VARIABLES
  open,          \* the dispatch under construction, or None
  built,         \* the finished dispatches, then, after Resolve, their signatures
  resolved,
  declared,      \* per dispatch: what its creator asked for
  call           \* the call or the check last made

vars == <<open, built, resolved, declared, call>>

None == [min |-> -1]
NewDispatch == [min |-> 0, max |-> 0, types |-> <<>>, block |-> Nil, optional |-> FALSE, ret |-> Nil]
Written == [params |-> <<>>, block |-> Nil, optional |-> FALSE]

NoCall == [kind |-> "none"]

Init ==
  /\ open = None /\ built = <<>> /\ resolved = FALSE
  /\ declared = <<>> /\ call = NoCall

----------------------------------------------------------------------------
(* dispatchBuilder.                                                        *)

Building == open # None
Params(ds) == FoldLeft(LAMBDA n, d : n + Len(d.params), 0, ds)

Create ==
  /\ ~Building /\ ~resolved /\ Len(built) < MaxDispatches /\ call = NoCall
  /\ open' = NewDispatch
  /\ declared' = Append(declared, Written)
  /\ UNCHANGED <<built, resolved, call>>

Declares(kind, t) ==
  /\ Params(declared) < MaxParams
  /\ declared' = [declared EXCEPT ![Len(declared)].params = Append(@, [kind |-> kind, type |-> t])]
  /\ UNCHANGED <<built, resolved, call>>

\* A repeated parameter is the last one; no builder survives the panic
NotAfterRepeated == Building /\ open.max # MaxInt

Param(t) ==
  /\ NotAfterRepeated /\ open.min >= open.max
  /\ open' = [open EXCEPT !.types = Append(@, t), !.min = @ + 1, !.max = @ + 1]
  /\ Declares("required", t)

OptionalParam(t) ==
  /\ NotAfterRepeated
  /\ open' = [open EXCEPT !.types = Append(@, t), !.max = @ + 1]
  /\ Declares("optional", t)

RepeatedParam(t) ==
  /\ NotAfterRepeated
  /\ open' = [open EXCEPT !.types = Append(@, t), !.max = MaxInt]
  /\ Declares("repeated", t)

RequiredRepeatedParam(t) ==
  /\ NotAfterRepeated
  /\ open' = [open EXCEPT !.types = Append(@, t), !.min = @ + 1, !.max = MaxInt]
  /\ Declares("required repeated", t)

(* Block2 looks at the return type where it means the block type, so a     *)
(* second block replaces the first.  An optional block stays optional.     *)
Block(t, optional) ==
  /\ Building /\ open.ret = Nil
  /\ \A i \in DOMAIN declared : declared[i].block = Nil        \* bound: one block
  /\ open' = [open EXCEPT !.block = t, !.optional = @ \/ optional]
  /\ declared' = [declared EXCEPT ![Len(declared)].block = t, ![Len(declared)].optional = optional]
  /\ UNCHANGED <<built, resolved, call>>

Returns(t) ==
  /\ Building /\ open.ret = Nil
  /\ built = <<>> /\ open.types = <<>>                         \* bound: one return type
  /\ open' = [open EXCEPT !.ret = t]
  /\ UNCHANGED <<built, resolved, declared, call>>

\* The Go function that a dispatch calls ends its declaration
Ends(takesBlock) ==
  /\ built' = Append(built, open @@ [takesBlock |-> takesBlock])
  /\ open' = None
  /\ UNCHANGED <<resolved, declared, call>>
Function == Building /\ open.block.k # "Callable" /\ Ends(FALSE)
Function2 == Building /\ open.block # Nil /\ Ends(TRUE)

(* createDispatch: references are replaced by the types they name, but only*)
(* where a type is nothing else than a reference.  A Go function without a*)
(* block parameter has no block.                                           *)
Dereferenced(t) == IF t.k = "TypeReference" THEN TypeTexts[t.name] ELSE t
NewTupleType(types, lo, hi) ==
  IF types = <<>> /\ lo = 0 /\ hi = MaxInt THEN TupleDefault ELSE TupleSized(types, lo, hi)
\* Faulty variant: an optional block is required
SignatureRequiringBlock(d) ==
  LET block == Dereferenced(d.block)
  IN CallableOf(NewTupleType([i \in DOMAIN d.types |-> Dereferenced(d.types[i])], d.min, d.max),
                Dereferenced(d.ret), IF d.takesBlock THEN block ELSE Nil)

CreateDispatch(d) ==
  LET block == Dereferenced(d.block)
  IN CallableOf(NewTupleType([i \in DOMAIN d.types |-> Dereferenced(d.types[i])], d.min, d.max),
                Dereferenced(d.ret),
                IF ~d.takesBlock THEN Nil ELSE IF d.optional THEN OptionalOf(block) ELSE block)

\* functionBuilder.Resolve
Resolve ==
  /\ ~Building /\ ~resolved /\ built # <<>>
  /\ resolved' = TRUE
  /\ built' = [i \in DOMAIN built |-> CreateDispatch(built[i])]
  /\ UNCHANGED <<open, declared, call>>

----------------------------------------------------------------------------
(* goFunction.Call.                                                        *)

(* CallableWith asks whether the expected block may stand for the one that*)
(* is given.                                                               *)
BlockFits(sig, block) ==
  IF block = Nil THEN sig.block = Nil \/ IsAssignable(sig.block, AnyT)
  ELSE /\ sig.block # Nil
       /\ IsAssignable(block, IF sig.block.k = "Optional" THEN sig.block.typ ELSE sig.block)

CallableWith(sig, args, block) == BlockFits(sig, block) /\ IsInstance(sig.params, ArrayV(args))

\* The first dispatch that takes the arguments is called
Found(takers) == IF takers = {} THEN 0 ELSE CHOOSE i \in takers : \A j \in takers : i <= j

Call(args, block) ==
  /\ resolved /\ call = NoCall
  /\ \E taken \in {Found({i \in DOMAIN built : CallableWith(built[i], args, block)})} :
       call' = [kind |-> "call", args |-> args, block |-> block, taken |-> taken,
                told |-> Unless(taken # 0,
                           DescribeSignatures(built, DetailedType(ArrayV(args)), block))]
  /\ UNCHANGED <<open, built, resolved, declared>>

(* AssertInstance and AssertType: a value that is not an instance is       *)
(* described by its detailed type.                                         *)
Assertion(t, actual, ok) ==
  [kind |-> "check", type |-> t, actual |-> actual, ok |-> ok,
   told |-> Unless(ok, Describe(t, actual, <<>>))]

\* <<the type of what is checked, whether it is acceptable>>
InstanceCheck(t, v) == <<DetailedType(v), IsInstance(t, v)>>
TypeCheck(t, actual) == <<actual, IsAssignable(t, actual)>>

Check(t) ==
  /\ open = None /\ built = <<>> /\ call = NoCall
  /\ \E check \in {InstanceCheck(t, v) : v \in CheckedValues} \cup {TypeCheck(t, u) : u \in Checked} :
       call' = Assertion(t, check[1], check[2])
  /\ UNCHANGED <<open, built, resolved, declared>>

Next ==
  \/ Create \/ Function \/ Function2 \/ Resolve
  \/ \E t \in ParamTypes : Param(t) \/ OptionalParam(t) \/ RepeatedParam(t) \/ RequiredRepeatedParam(t)
  \/ \E t \in Blocks, optional \in BOOLEAN : Block(t, optional)
  \/ Returns(Integer)
  \/ \E n \in 0..MaxArguments : \E args \in [1..n -> Arguments], block \in Lambdas \cup {Nil} :
       Call(args, block)
  \/ \E t \in Checked : Check(t)

Spec == Init /\ [][Next]_vars

----------------------------------------------------------------------------
(* Properties.                                                             *)

\* What a creator wrote, read as a pattern that the arguments must match
Takes2(d, args) ==
  LET n == Len(args)
      kinds == {d.params[i].kind : i \in DOMAIN d.params}
      Of2(kind) == {i \in DOMAIN d.params : d.params[i].kind = kind}
      open2 == {"repeated", "required repeated"} \cap kinds # {}
      required == Of2("required") \cup Of2("required repeated")
      least == IF required = {} THEN 0 ELSE CHOOSE i \in required : \A j \in required : i >= j
  IN /\ n >= least
     /\ n <= Len(d.params) \/ open2
     /\ \A i \in 1..n : IsInstance(Dereferenced(d.params[Lesser(i, Len(d.params))].type), args[i])

TakesBlock(d, block) ==
  IF block = Nil THEN d.block = Nil \/ d.optional
  ELSE d.block # Nil /\ IsAssignable(block, Dereferenced(d.block))

(* Declarations that do not mean what they say: a required repeated       *)
(* parameter after an optional one is not refused, unlike a required one, *)
(* and is not required; a block that is declared by the text of its type  *)
(* is dropped when the dispatch is given a Go function without a block.    *)
Misdeclared(i) ==
  \/ \E p, r \in DOMAIN declared[i].params :
       declared[i].params[p].kind = "optional" /\ declared[i].params[r].kind = "required repeated"
  \/ declared[i].block # Nil /\ built[i].block = Nil

(* A call runs the first dispatch whose declaration takes the arguments   *)
(* and the block, and none when no declaration does: function.go Call over *)
(* the signatures that dispatchBuilder assembled parameter by parameter.  *)
CallsFollowDeclarations ==
  call.kind = "call" /\ (\A i \in DOMAIN built : ~Misdeclared(i)) =>
    LET takers == {i \in DOMAIN declared :
                     Takes2(declared[i], call.args) /\ TakesBlock(declared[i], call.block)}
    IN IF takers = {} THEN call.taken = 0
       ELSE call.taken \in takers /\ \A j \in takers : call.taken <= j

ToldMismatches == IF call.kind = "check" THEN {call.told[i] : i \in DOMAIN call.told}
              ELSE UNION {{call.told[i][j] : j \in DOMAIN call.told[i]} : i \in DOMAIN call.told}

(* What describeTuple says of two Tuples of sizes that fit is limited to   *)
(* the elements beyond the expected ones, and of two Callables it compares *)
(* the parameters in the wrong direction.  Of two Structs the keys are    *)
(* compared as if none were optional.                                      *)
RECURSIVE Mentions(_, _)
Mentions(t, kinds) ==
  \/ t.k \in kinds
  \/ t.k = "TypeAlias" /\ t.name \notin {"Data", "RichData"} /\ Mentions(ResolvedType(t), kinds)
  \/ "typ" \in DOMAIN t /\ Mentions(t.typ, kinds)
  \/ t.k = "Hash" /\ (Mentions(t.key, kinds) \/ Mentions(t.value, kinds))
  \/ "types" \in DOMAIN t /\ \E i \in DOMAIN t.types : Mentions(t.types[i], kinds)
  \/ t.k = "Struct" /\ \E i \in DOMAIN t.elements : Mentions(t.elements[i].value, kinds)
Undescribed(t, actual) ==
  \/ /\ Mentions(t, {"Tuple", "Callable"})
     /\ ~(t.k = "Tuple" /\ actual.k \in {"Tuple", "Array"} /\ ~SizesFit(t, actual))
  \/ /\ Mentions(t, {"Struct"}) /\ actual.k = "Struct"
     /\ \E i \in DOMAIN actual.elements : actual.elements[i].key.k = "Optional"

\* CallableWith asks about the block the other way round than describeSignatureBlock
BlockAskedBackwards ==
  \E i \in DOMAIN built :
    /\ call.block # Nil /\ built[i].block # Nil
    /\ ~BlockFits(built[i], call.block) /\ IsAssignable(built[i].block, call.block)

(* A refused call and a refused value are explained: at least one mismatch*)
(* is named (describeSignatures after goFunction.Call, DescribeMismatch    *)
(* after AssertInstance and AssertType).                                   *)
RefusalsAreExplained ==
  /\ call.kind = "call" /\ call.taken = 0 => ToldMismatches # {} \/ BlockAskedBackwards
  /\ call.kind = "check" /\ ~call.ok =>
       \/ ToldMismatches # {}
       \/ IsAssignable(call.type, call.actual)
       \/ Undescribed(call.type, call.actual)

(* What was merged from several alternatives may mislead: a range that    *)
(* spans the expected sizes may hold the actual one, and when two          *)
(* signatures refuse two arguments for one repeated parameter, only one of *)
(* the arguments is mentioned.                                             *)
Merged(m) ==
  \/ /\ m.class \in {"sizeMismatch", "countMismatch"}
     /\ IF call.kind = "check" THEN Mentions(call.type, {"Variant"}) ELSE Len(built) > 1
  \/ /\ call.kind = "call" /\ Len(built) > 1
     /\ \E i \in DOMAIN built : built[i].params.hi > Len(built[i].params.types)

(* Every other explanation is true: the type it expects does not accept   *)
(* the actual one, and the two read differently (typeMismatch.text over    *)
(* what internalDescribe found).                                           *)
MismatchesAreReal ==
  call.kind # "none" =>
    \A m \in ToldMismatches :
      /\ "actual" \in DOMAIN m /\ ~Merged(m) => ~IsAssignable(m.expected, m.actual)
      /\ m.class = "typeMismatch" /\ ~Merged(m) =>
           \E text \in {Text(m)} : \A i \in DOMAIN text.expects : text.expects[i] # text.got

=============================================================================
