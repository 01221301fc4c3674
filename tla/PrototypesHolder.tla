-------------------------- MODULE PrototypesHolder --------------------------
(***************************************************************************)
(* The prototypes holder of utilities.mustache: an object of the           *)
(* interpreter, found under the name q36 in the global object, whose       *)
(* properties are the prototypes of all constructs; and the references     *)
(* (jerry_value_t) that the generated C code has to it and to them.        *)
(*                                                                         *)
(* An operator is a whole C function: it maps the holder before a call to  *)
(* the holder after it.                                                    *)
(***************************************************************************)
EXTENDS Integers

CONSTANTS
  Constructs,   \* what prototypes are registered for
  q36           \* the holder itself, among the values C has references to

Values == Constructs \cup {q36}

(* exists: the global object has the property q36; properties: the names of  *)
(* the prototypes in it; this: whether the native struct that hangs on it is *)
(* there; handles: for each value, what C has acquired and not released.     *)
Holder ==
  [exists : BOOLEAN, properties : SUBSET Constructs, this : BOOLEAN, handles : [Values -> Int]]

NoHolder ==
  [exists |-> FALSE, properties |-> {}, this |-> FALSE, handles |-> [v \in Values |-> 0]]

(* What jerry_create_object and jerry_get_property do to the reference count *)
(* of the value they return, and jerry_release_value undoes.                 *)
Acquire(h, v) == [h EXCEPT !.handles[v] = @ + 1]
Release(h, v) == [h EXCEPT !.handles[v] = @ - 1]

(* The new holder replaces what q36 stood for.  The reference that is stored  *)
(* in the struct is the one that is released: storing it acquires nothing.   *)
create_prototypes_holder(h) ==
  Release([Acquire(h, q36) EXCEPT !.exists = TRUE, !.properties = {}, !.this = TRUE], q36)

get_prototypes_holder(h) ==
  Acquire(IF h.exists THEN h ELSE create_prototypes_holder(h), q36)

(* The prototype of x, or undefined, of which there is nothing to release.   *)
get_prototype(h, x) ==
  LET got == get_prototypes_holder(h)
  IN  Release(IF x \in got.properties THEN Acquire(got, x) ELSE got, q36)

register_prototype(h, x) ==
  Release([get_prototypes_holder(h) EXCEPT !.properties = @ \cup {x}], q36)

(* Releases the reference in the struct, frees the struct, and releases the  *)
(* reference that get_prototypes_holder has returned.                        *)
webidl_utilities_cleanup(h) ==
  Release(Release([get_prototypes_holder(h) EXCEPT !.this = FALSE], q36), q36)
=============================================================================
