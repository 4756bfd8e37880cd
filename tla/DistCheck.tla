------------------------------- MODULE DistCheck -------------------------------
(***************************************************************************)
(* tools/check_dist.py: what a wheel and a source archive must contain     *)
(* before they are published.                                              *)
(*                                                                         *)
(* A member of an archive has a name, the sequence of its parts; a file has*)
(* bytes that are those of the current tree ("current") or not ("stale").  *)
(* The archives that the check is shown are those of a build and what a few*)
(* changes make of them; the check is one operator for each function.      *)
(* The dictionary of require_sdist_source_parity keeps one name for each   *)
(* relative path, the last that the iteration of a set happens to yield.   *)
(***************************************************************************)
EXTENDS Naturals, Sequences, SequencesExt, FiniteSets

CONSTANT MaxChanges   \* bound: how far the archives are from those of a build

-----------------------------------------------------------------------------
(* Names                                                                    *)

Module == <<"oracle.py">>
Converter == <<"_vendor", "llama2c_gguf.py">>
PackageSources == {Module, Converter}

Notices == { <<"LICENSE">>, <<"NOTICE">>, <<"THIRD_PARTY_NOTICES.md">>,
             <<"third_party", "llama.cpp-LICENSE.txt">> }

RequiredSuffixes == Notices \cup {<<"src", "cache_invariant">> \o Converter}

(* One of the files that only the source archive carries.                   *)
ReproducibilityFiles == {<<"tests", "test_oracle.py">>}

Wheel == <<"cache_invariant">>
InWheel(path) == Wheel \o path
WheelNotices == { <<"cache_invariant", "notices", "NOTICE">>,
                  <<"cache_invariant", "notices", "THIRD_PARTY_NOTICES.md">>,
                  <<"dist-info", "licenses", "LICENSE">>,
                  <<"dist-info", "licenses", "third_party", "llama.cpp-LICENSE.txt">> }
Metadata == <<"dist-info", "METADATA">>

BuiltWheel == {InWheel(p) : p \in PackageSources} \cup WheelNotices \cup {Metadata}

Sdist == <<"project">>
Marker == <<"src", "cache_invariant">>
BuiltSdist ==
    { Sdist \o p : p \in {Marker \o q : q \in PackageSources} \cup Notices
                         \cup ReproducibilityFiles \cup {<<"pyproject.toml">>} }

(* What else may have come in: a source that was deleted, a second copy of  *)
(* the tree, a license of somebody's, a model, a directory that escapes.    *)
Extras == { InWheel(<<"removed.py">>), <<"vendored", "LICENSE">>,
            Sdist \o Marker \o <<"removed.py">>,
            Sdist \o <<"build">> \o Marker \o Module,
            Sdist \o <<"fixture.gguf">>, <<"..", "notes">> }

Names == BuiltWheel \cup BuiltSdist \cup Extras

VARIABLES
    wheel, sdist,   \* the bytes of each member: "current", "stale" or "absent"
    linked,         \* the archives that have a link or another special entry
    repeated,       \* the archives that have a name twice
    relative,       \* the name that the dictionary of the sdist's sources keeps
    changes

vars == <<wheel, sdist, linked, repeated, relative, changes>>

Kinds == {"wheel", "sdist"}
Bytes == {"current", "stale", "absent"}

Has(archive) == {n \in Names : archive[n] # "absent"}

IsPython(n) == Last(n) \in {Last(Module), Last(Converter), "removed.py", "test_oracle.py"}

(* What follows the first occurrence of the marker in a name.               *)
AfterMarker(n) ==
    {SubSeq(n, i + 2, Len(n)) : i \in {j \in 2 .. Len(n) - 2 : SubSeq(n, j, j + 1) = Marker}}

SdistSources(archive) == {n \in Has(archive) : AfterMarker(n) # {} /\ IsPython(n)}

RelativePath(n) == CHOOSE r \in AfterMarker(n) : TRUE

(* Any of the names with one relative path may be the last one.             *)
Packaged(archive) ==
    LET found == SdistSources(archive) IN
    {f \in [{RelativePath(n) : n \in found} -> found] :
        \A r \in DOMAIN f : RelativePath(f[r]) = r}

TypeOK ==
    /\ wheel \in [Names -> Bytes] /\ sdist \in [Names -> Bytes]
    /\ linked \in SUBSET Kinds /\ repeated \in SUBSET Kinds
    /\ \A r \in DOMAIN relative : relative[r] \in Has(sdist) /\ IsSuffix(r, relative[r])
    /\ changes \in 0 .. MaxChanges

Init ==
    /\ wheel = [n \in Names |-> IF n \in BuiltWheel THEN "current" ELSE "absent"]
    /\ sdist = [n \in Names |-> IF n \in BuiltSdist THEN "current" ELSE "absent"]
    /\ linked = {} /\ repeated = {}
    /\ relative \in Packaged(sdist)
    /\ changes = 0

(* A build that went differently: one member is missing, stale or added.    *)
Change ==
    /\ changes < MaxChanges
    /\ changes' = changes + 1
    /\ \/ /\ \E n \in Names, b \in Bytes : wheel' = [wheel EXCEPT ![n] = b]
          /\ UNCHANGED <<sdist, linked, repeated>>
       \/ /\ \E n \in Names, b \in Bytes : sdist' = [sdist EXCEPT ![n] = b]
          /\ UNCHANGED <<wheel, linked, repeated>>
       \/ /\ \E k \in Kinds : linked' = linked \cup {k} /\ UNCHANGED repeated
          /\ UNCHANGED <<wheel, sdist>>
       \/ /\ \E k \in Kinds : repeated' = repeated \cup {k} /\ UNCHANGED linked
          /\ UNCHANGED <<wheel, sdist>>
    /\ relative' \in Packaged(sdist')

Stay == changes = MaxChanges /\ UNCHANGED vars

Next == Change \/ Stay

Spec == Init /\ [][Next]_vars

-----------------------------------------------------------------------------
(* The check                                                                *)

SafeName(n) == n # <<>> /\ ".." \notin ToSet(n)

RuntimeFiles == {"fixture.gguf"}

(* reject_forbidden_names                                                   *)
NothingForbidden(names) == \A n \in names : Last(n) \notin RuntimeFiles

(* require_names                                                            *)
RequireNames(names) ==
    /\ \A s \in RequiredSuffixes : \E n \in names : IsSuffix(s, n)
    /\ NothingForbidden(names)

(* Mutation of WheelParity: a file of the wheel that the tree has not got   *)
(* is not looked at.                                                        *)
WheelParityExpected(names) ==
    \A p \in PackageSources : InWheel(p) \in names /\ wheel[InWheel(p)] = "current"

(* require_wheel_source_parity                                              *)
WheelParity(names) ==
    /\ {n \in names : IsPrefix(Wheel, n) /\ IsPython(n)} = {InWheel(p) : p \in PackageSources}
    /\ \A p \in PackageSources : wheel[InWheel(p)] = "current"

(* require_sdist_source_parity                                              *)
SdistParity ==
    /\ DOMAIN relative = PackageSources
    /\ \A p \in PackageSources : sdist[relative[p]] = "current"

(* Wheel paths differ from source paths: the names of a wheel that count as *)
(* those of the source archive.                                             *)
Adjusted(names) ==
    names
    \cup {<<"src">> \o n : n \in {m \in names : IsSuffix(Wheel \o Converter, m)}}
    \cup {<<Last(n)>> : n \in {m \in names :
              IsSuffix(<<"cache_invariant", "notices", Last(m)>>, m)
              /\ Last(m) \in {"NOTICE", "THIRD_PARTY_NOTICES.md"}}}
    \cup {<<"LICENSE">> : n \in {m \in names : IsSuffix(<<"licenses", "LICENSE">>, m)}}
    \cup {<<"third_party", "llama.cpp-LICENSE.txt">> : n \in {m \in names :
              IsSuffix(<<"licenses", "third_party", "llama.cpp-LICENSE.txt">>, m)}}

WheelPasses ==
    LET names == Has(wheel)
        one(suffix) == Cardinality({n \in names : IsSuffix(suffix, n)}) = 1
    IN  /\ "wheel" \notin repeated \cup linked
        /\ \A n \in names : SafeName(n)
        /\ one(Metadata) /\ wheel[Metadata] = "current"
        /\ WheelParity(names)
        /\ RequireNames(Adjusted(names))
        /\ one(Wheel \o Converter)
        /\ one(<<"cache_invariant", "notices", "THIRD_PARTY_NOTICES.md">>)

SdistPasses ==
    LET names == Has(sdist) IN
    /\ "sdist" \notin repeated \cup linked
    /\ \A n \in names : SafeName(n)
    /\ RequireNames(names)
    /\ \A s \in ReproducibilityFiles : \E n \in names : IsSuffix(s, n)
    /\ SdistParity
    /\ Cardinality({n \in names : Last(n) = "pyproject.toml"}) = 1

Passes == WheelPasses /\ SdistPasses

-----------------------------------------------------------------------------
(* Properties                                                               *)

(* The two archives of a release that passes agree with each other and with *)
(* the tree: the same Python files of the package by relative path, none    *)
(* left over from a deleted module in either, each with current bytes in the*)
(* wheel and somewhere in the source archive, and no notice is missing from *)
(* either, although the two lay the files out differently.                  *)
ArchivesAgree ==
    Passes =>
        /\ {n \in Has(wheel) : Head(n) = "cache_invariant" /\ IsPython(n)}
              = {InWheel(RelativePath(n)) : n \in SdistSources(sdist)}
        /\ \A n \in SdistSources(sdist) :
              /\ wheel[InWheel(RelativePath(n))] = "current"
              /\ \E m \in SdistSources(sdist) :
                    RelativePath(m) = RelativePath(n) /\ sdist[m] = "current"
        /\ \A s \in Notices, a \in {wheel, sdist} :
              \E n \in Has(a) : Last(n) = Last(s)

=============================================================================
