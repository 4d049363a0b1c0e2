------------------------------ MODULE Emission ------------------------------
(***************************************************************************)
(* What the emitter (src/cmakeless/emitter/cmake_emitter.py) writes for an  *)
(* accepted project: CMakeLists.txt as a sequence of sections, each a set   *)
(* of blocks. A block is what it needs from the sections before it, what it *)
(* gives to those after it, and what must be there when CMake has read the  *)
(* whole file and generates.                                               *)
(*                                                                         *)
(* Facts are pairs of a kind and a name. The default build type and the     *)
(* switch for position-independent code are in FrontEnd.                   *)
(***************************************************************************)
EXTENDS Validation, Reflection

\* The package of a binding library has the name of the library, and names that
\* differ do so with a suffix.
ASSUME EmissionAssumption ==
    /\ \A b \in DOMAIN BindingPackage : BindingPackage[b].name = b
    /\ \A a, b \in Names : a \o "_stub" = b \o "_stub" => a = b

Block(needs, gives, later) == [needs |-> needs, gives |-> gives, later |-> later]
Giving(gives) == Block({}, gives, {})

Of(m, kinds) == {t \in Elements(m.targets) : t.kind \in kinds}
Frameworks(m) == {t.backend : t \in Of(m, {"test"})} \ {"none"}
SanitizerUnion(m) == UNION {x.sanitize : x \in Elements(m.presets)}

-----------------------------------------------------------------------------
(* The targets.                                                            *)

Has(part, condition) == IF condition THEN {part} ELSE {}

\* What the blocks of every target say of it, in the compiled ones for what
\* they compile and in a header-only library for its consumers.
SharedParts(t) ==
    Has("headers", t.headers # {}) \cup Has("pch", t.settings.pch # {})
    \cup Has("unity", t.settings.unity) \cup Has("links", t.links # {})
    \cup Has("whens", t.whens # {})

InputParts(t) ==
    Has("sources", t.sources # {}) \cup Has("modules", t.modules # {}) \cup Has("dirs", t.dirs # {})

\* What compiles, sanitizes or lints a header-only library is left out.
Parts(t) ==
    SharedParts(t) \cup
    IF HeaderOnly(t) THEN {}
    ELSE InputParts(t) \cup Has("lint", t.settings.lint)
         \cup Has("sanitize", t.settings.sanitize # {})

\* nanobind_add_stub defines a target of its own.
Stub(t) == IF t.kind = "python" /\ t.stubs /\ t.backend = "nanobind" THEN {t.name \o "_stub"} ELSE {}

\* A condition on an option reads the option's variable.
OptionNeeds(t) == {<<"option", o>> : o \in t.whens}

LinksLater(t) == {<<IF l.external THEN "imported" ELSE "target", l.to>> : l \in t.links}

\* generate_export_header for a shared library, <binding>_add_module for a
\* Python module, discovery for a test, the options of its conditions, and the
\* list of sanitizers that a preset switches on.
TargetNeeds(m, t) ==
    LET Needs(fact, condition) == IF condition THEN {fact} ELSE {}
    IN  Needs(<<"include", "GenerateExportHeader">>, t.kind = "shared")
        \cup Needs(<<"package", t.backend>>, t.kind = "python")
        \cup Needs(<<"include", "testing">>, t.kind = "test")
        \cup Needs(<<"discovery", t.backend>>, t.kind = "test" /\ t.backend # "none")
        \cup Needs(<<"include", "CMAKELESS_SANITIZE">>,
                   SanitizerUnion(m) # {} /\ ~HeaderOnly(t))
        \cup OptionNeeds(t)

TargetBlock(m, t) ==
    Block(TargetNeeds(m, t),
          {<<"target", n>> : n \in {t.name} \cup Stub(t)},
          LinksLater(t) \cup (IF t.modules = {} THEN {} ELSE {<<"minimum", "modules">>}))

TargetBlocks(m, kinds) == {TargetBlock(m, t) : t \in Of(m, kinds)}

-----------------------------------------------------------------------------
(* The other sections.                                                     *)

\* cmake_minimum_required: module interfaces need a newer CMake.
Preamble(m) ==
    {Giving({<<"minimum", "modules">>}) : t \in {t \in Elements(m.targets) : t.modules # {}}}

OptionBlocks(m) == {Giving({<<"option", o.name>>}) : o \in Elements(m.options)}

\* The files that the list includes, once for every call of the script.
Inclusions(m) == m.raws \o [k \in DOMAIN m.modules |-> m.modules[k].reference]
Included(m) == Elements(m.raws) \cup {x.reference : x \in Elements(m.modules)}
IncludedAgain(m, f) ==
    \E i, j \in DOMAIN Inclusions(m) : i # j /\ Inclusions(m)[i] = f /\ Inclusions(m)[j] = f

\* Whatever include() has found out about a file on its own, CMake runs it again.
RunNeeds(m, f) == {<<"run", f>>} \cup Has(<<"run again", f>>, IncludedAgain(m, f))
Runnable ==
    {<<"run", f>> : f \in {f \in DOMAIN content : "project" \in content[f].works}}
    \cup {<<"run again", f>> : f \in {f \in DOMAIN content : "again" \in content[f].works}}

\* The targets of a file, which are there after its first run.
FileTargets(f) == UNION {content[g].targets : g \in {f} \cap DOMAIN content}
AddedByFiles(m) == UNION {FileTargets(f) : f \in Included(m)}
FileBlocks(m, files) ==
    {Block(RunNeeds(m, f), {<<"target", t>> : t \in FileTargets(f)}, {}) : f \in files}

RawIncludes(m) ==
    {Block({<<"file", f>>}, {}, {}) : f \in Elements(m.raws)} \cup FileBlocks(m, Elements(m.raws))

ModuleBlocks(m) ==
    {Block(IF x.kind = "file" THEN {<<"file", x.reference>>} ELSE {},
           {<<"function", f>> : f \in content[x.reference].functions}, {<<"function", f>> : f \in Elements(x.calls)}) :
        x \in Elements(m.modules)}
    \cup FileBlocks(m, {x.reference : x \in Elements(m.modules)} \ Elements(m.raws))

\* Mutant: the export header is included for static libraries only.
ModuleIncludesStatic(m) ==
    {Giving({<<"include", name>>}) : name \in
        (IF Of(m, {"static"}) = {} THEN {} ELSE {"GenerateExportHeader"})
        \cup (IF m.packages = {} \/ m.manager # "auto" THEN {} ELSE {"FetchContent"})
        \cup (IF m.installs = <<>> THEN {} ELSE {"GNUInstallDirs"})}

ModuleIncludes(m) ==
    {Giving({<<"include", name>>}) : name \in
        (IF Of(m, {"shared"}) = {} THEN {} ELSE {"GenerateExportHeader"})
        \cup (IF m.packages = {} \/ m.manager # "auto" THEN {} ELSE {"FetchContent"})
        \cup (IF m.installs = <<>> THEN {} ELSE {"GNUInstallDirs"})}

\* enable_testing() reserves a target name. The tests of subprojects, which ask
\* for it as well, are left out.
Testing(m) ==
    IF Of(m, {"test"}) = {} THEN {} ELSE {Giving({<<"include", "testing">>, <<"target", "test">>})}

PythonPreamble(m) ==
    IF Of(m, {"python"}) = {} THEN {} ELSE {Giving({<<"include", "Python">>})}

SanitizePreamble(m) ==
    IF SanitizerUnion(m) = {} THEN {} ELSE {Giving({<<"include", "CMAKELESS_SANITIZE">>})}

\* A package that the machine does not have is fetched, unless the first of its
\* imported targets is there already, from an included file.
IsThere(m, p) == (CHOOSE t \in p.gives : TRUE) \in AddedByFiles(m)
Source(m, p, lacking) ==
    IF p \notin lacking THEN "found" ELSE IF IsThere(m, p) THEN "there" ELSE "fetched"

\* One that is found imports its targets, and nothing imported has to be exported.
\* One that is fetched brings the targets of its source tree with it, and they are
\* exported only if that tree does it. A target that is there stays what it is.
ImportedBy(m, p, lacking) ==
    IF Source(m, p, lacking) = "there" THEN p.gives \cap AddedByFiles(m) ELSE p.gives
ExportedBy(m, p, lacking) ==
    CASE Source(m, p, lacking) = "found"   -> p.gives \ AddedByFiles(m)
      [] Source(m, p, lacking) = "fetched" -> p.exports
      [] Source(m, p, lacking) = "there"   -> {}
InnerOf(m, p, lacking) == IF Source(m, p, lacking) = "fetched" THEN p.inner ELSE {}

\* A binding library looks for the Python that has been found before it.
PackageNeeds(m, p) ==
    Has(<<"include", "FetchContent">>, m.manager = "auto")
    \cup Has(<<"include", "Python">>, p.name \in {t.backend : t \in Of(m, {"python"})})
PackageGives(m, p, lacking) ==
    Has(<<"package", p.name>>, Source(m, p, lacking) # "there")
    \cup {<<"imported", t>> : t \in ImportedBy(m, p, lacking)}
    \cup {<<"exported", t>> : t \in ExportedBy(m, p, lacking)}
    \cup {<<"target", n>> : n \in InnerOf(m, p, lacking)}
PackageBlocks(m, lacking) ==
    {Block(PackageNeeds(m, p), PackageGives(m, p, lacking), {}) : p \in m.packages}

Subdirectories(m) == {Giving({<<"target", n>> : n \in m.children})}

\* Every command is a block of its own, two with the same output as well.
CommandBlocks(m) ==
    {Giving({<<"output", o>> : o \in m.commands[i].outputs} \cup {<<"command", i>>}) :
        i \in DOMAIN m.commands}

\* The discovery of GoogleTest comes with CMake, any other with the package.
FrameworkIncludes(m) ==
    {Block(Has(<<"package", FrameworkPackage[f].name>>, f # "gtest"), {<<"discovery", f>>}, {}) :
        f \in Frameworks(m)}

CustomTargetBlocks(m) == {Giving({<<"target", c.name>>}) : c \in Elements(m.customs)}

\* What CMake wants exported beside a library: what its consumers link, what is
\* linked into a static library, and what a shared one loads.
Travels(m, t) ==
    LET Loaded(l) == \E x \in Ours(m) : x.name = l.to /\ x.kind = "shared"
    IN  {l.to : l \in {l \in t.links :
            \/ t.kind \in {"static", "header_only"}
            \/ t.kind = "shared" /\ (l.public \/ Loaded(l))}}

InstallBlocks(m) ==
    {Block({<<"include", "GNUInstallDirs">>, <<"target", x.target>>}, {<<"exported", x.target>>},
           UNION {{<<"exported", n>> : n \in Travels(m, t)} :
                    t \in {t \in Installable(m) : t.name = x.target}}) :
        x \in Elements(m.installs)}

-----------------------------------------------------------------------------
(* emit                                                                    *)

Sections(m, lacking) ==
    <<Preamble(m), OptionBlocks(m), RawIncludes(m), ModuleBlocks(m), ModuleIncludes(m),
      Testing(m), PythonPreamble(m), SanitizePreamble(m), PackageBlocks(m, lacking),
      Subdirectories(m), CommandBlocks(m),
      TargetBlocks(m, LibraryKinds), TargetBlocks(m, {"executable"}),
      TargetBlocks(m, {"python"}), FrameworkIncludes(m), TargetBlocks(m, {"test"}),
      CustomTargetBlocks(m), InstallBlocks(m)>>

\* The file of a preset's toolchain, as a path: one that only wraps a file is
\* used where it is.
WrapsFile(x) == x.file # Nobody /\ ~x.variables
ToolchainFile(m, name) ==
    LET used == {x \in Elements(m.toolchains) : x.name = name}
        x    == CHOOSE x \in used : TRUE
    IN  IF used = {} THEN <<>> ELSE IF WrapsFile(x) THEN <<x.file>> ELSE <<"cmake/toolchains", name>>

\* emit_tree writes the other ones.
WrittenToolchains(m) ==
    {<<"cmake/toolchains", x.name>> : x \in {x \in Elements(m.toolchains) : ~WrapsFile(x)}}

\* Mutant: a preset that inherits leaves its type to the other one.
LeftToParent(x) == IF x.inherits = Nobody THEN BuildType[x.optimize] ELSE Nobody

\* _cache_variables: the build type is always stated.
StatedType(x) == BuildType[x.optimize]

\* CMakePresets.json, as far as types and toolchains go.
PresetEntry(m, x) ==
    [name |-> x.name, inherits |-> x.inherits, type |-> StatedType(x),
     toolchain |-> ToolchainFile(m, x.toolchain)]
PresetEntries(m) == {PresetEntry(m, x) : x \in Elements(m.presets)}

\* CMake takes what a preset does not state from the one it inherits from, and
\* reads no file in which presets inherit in a circle.
CMakeType(entries, name) ==
    LET Entry(n) == CHOOSE e \in entries : e.name = n
        from[k \in 0 .. Cardinality(entries)] ==
            IF k = 0 THEN name
            ELSE IF from[k - 1] = Nobody THEN Nobody ELSE Entry(from[k - 1]).inherits
        stating == {k \in DOMAIN from : from[k] # Nobody /\ Entry(from[k]).type # Nobody}
    IN  IF stating = {} \/ from[Cardinality(entries)] # Nobody THEN Nobody
        ELSE Entry(from[CHOOSE k \in stating : \A j \in stating : k <= j]).type
=============================================================================
