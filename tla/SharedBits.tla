----------------------------- MODULE SharedBits -----------------------------
(***************************************************************************)
(* What psi::tools::BitSet promises: variables that refer to sets of bits. *)
(* A copy refers to the set of the original, so both see every change.     *)
(***************************************************************************)
EXTENDS Integers

CONSTANTS Vars, Ids,   \* the variables, the identities of sets
          None,        \* no set
          Sets         \* what may be made: the size of a set and its ones

VARIABLES ref,         \* the set each variable refers to
          bits         \* the size and the ones of each set

Empty == [size |-> 0, ones |-> {}]
Live(r, h) == [a \in Ids |-> IF \E x \in Vars : r[x] = a THEN h[a] ELSE Empty]

Init == /\ ref = [x \in Vars |-> None]
        /\ bits = [a \in Ids |-> Empty]

Make(x, a, set) ==
    /\ ref[x] = None /\ \A y \in Vars : ref[y] # a
    /\ ref' = [ref EXCEPT ![x] = a]
    /\ bits' = [bits EXCEPT ![a] = set]

\* x refers to the set of y, or to none; a set nobody refers to is gone.
Refer(x, target) ==
    /\ ref' = [ref EXCEPT ![x] = target]
    /\ bits' = Live(ref', bits)

\* The set x refers to gets other ones.
Change(x, ones) ==
    /\ bits' = [bits EXCEPT ![ref[x]].ones = ones]
    /\ UNCHANGED ref

SetBit(x, i, value) ==
    LET old == bits[ref[x]].ones
    IN  Change(x, IF value THEN old \cup {i} ELSE old \ {i})
Inverse(x) ==
    Change(x, (0 .. (bits[ref[x]].size - 1)) \ bits[ref[x]].ones)
Reverse(x) ==
    Change(x, {bits[ref[x]].size - 1 - i : i \in bits[ref[x]].ones})

Next ==
    \/ \E x \in Vars, a \in Ids, set \in Sets : Make(x, a, set)
    \/ \E x, y \in Vars : ref[y] # None /\ Refer(x, ref[y])
    \/ \E x \in Vars : ref[x] # None /\ Refer(x, None)
    \/ \E x, y \in Vars : /\ x # y /\ ref[y] # None
                          /\ ref' = [ref EXCEPT ![x] = ref[y], ![y] = None]
                          /\ bits' = Live(ref', bits)
    \/ \E x \in Vars : /\ ref[x] # None
                       /\ \/ \E i \in 0 .. (bits[ref[x]].size - 1), value \in BOOLEAN :
                                SetBit(x, i, value)
                          \/ Inverse(x) \/ Reverse(x)

Spec == Init /\ [][Next]_<<ref, bits>>
=============================================================================
