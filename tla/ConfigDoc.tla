------------------------------ MODULE ConfigDoc ------------------------------
(***************************************************************************)
(* Configuration documents of an agent registration and the deep merge    *)
(* that inject_config applies to them (agent_controller.py, deep_update).  *)
(*                                                                         *)
(* A JSON value is either a document (a dict: a function from keys to      *)
(* values) or a scalar; the two are tagged so that "isinstance(v, dict)"   *)
(* is a test on the tag.  A document's fields are a TLA+ function whose    *)
(* domain is the set of keys present.                                      *)
(***************************************************************************)
EXTENDS Sequences, FiniteSetsExt, TLC

Doc(f)       == [kind |-> "doc", fields |-> f]
Scalar(x)    == [kind |-> "scalar", val |-> x]
IsDoc(v)     == v.kind = "doc"
NoFields     == [k \in {} |-> Scalar(0)]

\* d[k] = v on a dict: add or overwrite one key.
Assign(f, k, v) == (k :> v) @@ f

\* A faulty merge, for mutation: dict.update, which replaces a nested
\* document wholesale instead of merging into it.
deep_update_shallow(d, u) ==
    [k \in DOMAIN d \cup DOMAIN u |-> IF k \in DOMAIN u THEN u[k] ELSE d[k]]

(***************************************************************************)
(* deep_update(d, u): for every key of the patch u, merge recursively when *)
(* both the existing and the incoming value are dicts, otherwise the patch *)
(* value replaces the existing one.  The Python function mutates d in      *)
(* place; the result here is the value d has when it returns.              *)
(***************************************************************************)
RECURSIVE deep_update(_, _)
deep_update(d, u) ==
    [k \in DOMAIN d \cup DOMAIN u |->
        IF k \notin DOMAIN u THEN d[k]
        ELSE IF IsDoc(u[k]) /\ k \in DOMAIN d /\ IsDoc(d[k])
             THEN Doc(deep_update(d[k].fields, u[k].fields))
             ELSE u[k]]

(***************************************************************************)
(* Reference semantics of the deep merge, stated path by path as in the    *)
(* spec (section 4.4): every scalar the patch holds at a path is written   *)
(* at that path, turning every non-document on the way into a document;    *)
(* an empty document in the patch is written only where the target holds  *)
(* no document.  Everything else of the target is kept.                    *)
(***************************************************************************)

\* The maximal entries <<path, value>> of a document: scalars and empty docs.
RECURSIVE LeafEntries(_)
LeafEntries(f) ==
    UNION { IF IsDoc(f[k]) /\ DOMAIN f[k].fields # {}
              THEN { <<<<k>> \o e[1], e[2]>> : e \in LeafEntries(f[k].fields) }
              ELSE { <<<<k>>, f[k]>> }
            : k \in DOMAIN f }

RECURSIVE SetPath(_, _, _)
SetPath(f, p, v) ==
    LET k == Head(p)
        inner == IF k \in DOMAIN f /\ IsDoc(f[k]) THEN f[k].fields ELSE NoFields
    IN  IF Len(p) = 1
          THEN IF IsDoc(v) /\ k \in DOMAIN f /\ IsDoc(f[k]) THEN f ELSE Assign(f, k, v)
          ELSE Assign(f, k, Doc(SetPath(inner, Tail(p), v)))

ReferenceMerge(d, u) ==
    FoldSet(LAMBDA e, acc : SetPath(acc, e[1], e[2]), d, LeafEntries(u))

=============================================================================
