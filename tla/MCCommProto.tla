----------------------------- MODULE MCCommProto -----------------------------
(* Structs with all kinds of fields, the struct arrays being followed by   *)
(* others, and one whose author forgot the length of an array.             *)
EXTENDS CommProto, TLC

Field(t) == [t |-> t, n |-> 0, k |-> 0]
Fixed(n) == [t |-> "FIXED_ARRAY", n |-> n, k |-> 0]
Dynamic(k) == [t |-> "STRUCT_DYNAMIC_ARRAY", n |-> 0, k |-> k]
FixedStructs(k, n) == [t |-> "STRUCT_FIXED_ARRAY", n |-> n, k |-> k]

INT == Field("INT")
LEN == Field("ARRAY_LEN")
DYN == Field("DYNAMIC_ARRAY")

SomeMetas ==
  { <<LEN, DYN, DYN, Fixed(2)>>,
    <<LEN, Dynamic(2), LEN, DYN, INT>>,
    <<FixedStructs(2, 2), LEN, DYN, INT>>,
    <<DYN, INT>> }

\* A struct array whose structs have an array of their own, and nothing else.
ArraysInStructs == {<<LEN, Dynamic(2), LEN, DYN>>}

\* A struct that has been cleared is like a new one; a fault in one that is used again may
\* take four messages.
Messages == "clear" :> 2 @@ "grow" :> 2 @@ "reuse" :> 4 @@ "rules" :> 4

\* What the comment in Step 2 of general_deserialization() says (communication_protocol.c:577-583):
\* where the arrays had their longest lengths on first use and are never longer
\* afterwards, the memory can be used again and again.  Each packet is a whole one and
\* no call has failed; no walk may then come upon memory that nobody wrote.
ReuseIsSafe == usage = "rules" => InStep
=============================================================================
