---------------------------- MODULE StoragePaths ----------------------------
(***************************************************************************)
(* How the path a guest passes to a storage host function becomes the key  *)
(* a StateProvider works on.  The mount is removed as text; what is left   *)
(* is then read component by component.  A path is a sequence of           *)
(* characters, because the two views disagree about "/data" and            *)
(* "/database", about repeated slashes and about a mount that ends in one. *)
(***************************************************************************)
EXTENDS Naturals, SequencesExt

CONSTANT Refused   \* an Err

Slash  == "/"
Parent == <<".", ".">>

\* A text is read character by character: the pieces that are complete, and the
\* one being read.  Pieces in `dropped` disappear.
Close(r, dropped) == IF r.piece \in dropped THEN r.pieces ELSE Append(r.pieces, r.piece)
ReadNext(r, c, separator, dropped) ==
    IF c = separator THEN [pieces |-> Close(r, dropped), piece |-> <<>>]
    ELSE [pieces |-> r.pieces, piece |-> Append(r.piece, c)]
ReadAll(text, separator, dropped) ==
    LET Read[n \in 0..Len(text)] ==
            IF n = 0 THEN [pieces |-> <<>>, piece |-> <<>>]
            ELSE ReadNext(Read[n - 1], text[n], separator, dropped)
    IN  Read[Len(text)]

\* str::split: one more piece than there are separators.
Split(text, separator) == Close(ReadAll(text, separator, {}), {})

\* Path::components of a relative path: empty and "." components disappear.
Ignored == {<<>>, <<".">>}
Components(path) == Close(ReadAll(path, Slash, Ignored), Ignored)

\* trim_start_matches('/').
TrimSlashes(path) ==
    LET plain == {i \in 1..Len(path) : path[i] # Slash} IN
    IF plain = {} THEN <<>>
    ELSE SubSeq(path, CHOOSE i \in plain : \A j \in plain : i <= j, Len(path))

\* Mutant: a name that merely begins like the mount is taken to be in it.
StorageRelativePathPrefix(mount, requested) ==
    IF ~IsPrefix(mount, requested) THEN Refused
    ELSE LET relative == TrimSlashes(SubSeq(requested, Len(mount) + 1, Len(requested)))
         IN  IF Contains(Components(relative), Parent) THEN Refused ELSE relative

\* Mutant: the path is inspected before the mount is taken off, as a whole text.
StorageRelativePathLoose(mount, requested) ==
    IF ~IsPrefix(mount, requested) THEN Refused
    ELSE LET rest == SubSeq(requested, Len(mount) + 1, Len(requested)) IN
         IF \/ rest # <<>> /\ Head(rest) # Slash
            \/ IsPrefix(Parent, TrimSlashes(rest))
           THEN Refused ELSE TrimSlashes(rest)

\* storage_relative_path.
StorageRelativePath(mount, requested) ==
    IF ~IsPrefix(mount, requested) THEN Refused
    ELSE LET rest == SubSeq(requested, Len(mount) + 1, Len(requested))
             relative == TrimSlashes(rest)
         IN  IF \/ rest # <<>> /\ Head(rest) # Slash
                \/ Contains(Components(relative), Parent)
               THEN Refused ELSE relative

\* resolve_relative_path: the file, as the components below the provider's root.
\* reject_escaping_path has nothing left to reject in a path that comes from
\* storage_relative_path.
HostFile(relative) ==
    IF Contains(Components(relative), Parent) THEN Refused ELSE Components(relative)

-----------------------------------------------------------------------------

\* A path as one writes it: absolute, single slashes, no "." or "..".
Join(components) ==
    FlattenSeq([i \in 1..Len(components) |-> <<Slash>> \o components[i]])
Canonical(path) ==
    /\ path # <<>> /\ path = Join(Components(path))
    /\ ~Contains(Components(path), Parent)
=============================================================================
