-------------------------- MODULE MCSmevTransform --------------------------
(* Small instances of SmevTransform.  Namespaces are 1..3, 0 is none.      *)
EXTENDS SmevTransformProps

N(ns, local) == [ns |-> ns, local |-> local]

\* Nesting: siblings and descendants that reuse each other's namespaces.
NestedElements   == {N(1, 1), N(2, 1), N(3, 2)}
NestedAttributes == {N(2, 1)}

\* Attributes: qualified ones in the element's namespace, in a second and in
\* a third one, unqualified ones that sort before and after them.
TaggedElements   == {N(1, 1), N(2, 1)}
TaggedAttributes == {N(0, 1), N(0, 3), N(1, 2), N(3, 1), N(3, 2)}

\* An element in no namespace below one that has a namespace.
UnqualifiedElements == {N(0, 1), N(1, 1)}
MixedAttributes     == {N(0, 1), N(1, 2)}
=============================================================================
