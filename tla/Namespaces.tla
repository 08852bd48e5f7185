----------------------------- MODULE Namespaces -----------------------------
(***************************************************************************)
(* The namespace spec resolver of runcell                                  *)
(* (src/crate/celler/src/container/namespace.rs): how one entry of the OCI *)
(* linux.namespaces array is read by the parent-side helpers and how the   *)
(* child resolves it.                                                       *)
(*                                                                         *)
(* A path is abstracted to what the code tells apart: the entry is absent  *)
(* from the array, present with no path (None), present with an empty path *)
(* (Some("")), or present with a real path (Some(p)).                       *)
(***************************************************************************)

\* The forms an OCI namespace entry of one kind can take.
NsEntries == {"absent", "unset", "empty", "set"}

\* Mutant: the path is not looked at, only the kind.
is_userns_enabled_any_path(user) == user \in {"unset", "empty", "set"}

\* Mutant: the test on the path is inverted (path().is_some()).
is_userns_enabled_some_path(user) == user = "set"

\* is_userns_enabled: some entry of kind "user" has path None. An entry
\* whose path is Some("") does not count.
is_userns_enabled(user) == user = "unset"

\* The child's reading of the entry (spec section 3: an entry with an empty
\* or absent path is CreateNew, one with a path is Join, a kind missing from
\* the array is Skip).
ChildCreatesNew(entry) == entry \in {"unset", "empty"}

=============================================================================
