--------------------------- MODULE MCRuntimeArchive ---------------------------
(***************************************************************************)
(* The archives that RuntimeArchive is checked with: all archives of at    *)
(* most three members of every kind, two directories deep and in both      *)
(* formats, and all tar archives of four files and links in one directory. *)
(***************************************************************************)
EXTENDS RuntimeArchive

CONSTANTS a, b, s

PathsUpTo(depth, names) == UNION {[1 .. n -> names] : n \in 1 .. depth}

MembersOf(kinds, paths, names) ==
    { m \in [kind : kinds, path : paths, link : names \cup {Elsewhere}] :
          m.kind = "link" \/ m.link = Elsewhere }

Kinds == {"file", "dir", "link", "hardlink", "special", "unsafe"}

Mixed == MembersOf(Kinds, PathsUpTo(2, {a, s}), {a, s})

Flat == MembersOf({"file", "link"}, PathsUpTo(1, {a, b, s}), {a, b, s})

MCArchives ==
    [format : {"zip", "tar"}, members : UNION {[1 .. n -> Mixed] : n \in 0 .. 3}]
        \cup [format : {"tar"}, members : [1 .. 4 -> Flat]]

MCNames == {a, b, s}

MCPinnedPath == <<a, s>>
=============================================================================
