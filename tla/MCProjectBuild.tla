--------------------------- MODULE MCProjectBuild ---------------------------
(***************************************************************************)
(* ProjectBuild for TLC. A topic is a part of the builder interface: its    *)
(* scripts begin with the opening and then make up to `most` of the calls   *)
(* of the menu, in every order and with repetitions.                       *)
(***************************************************************************)
EXTENDS ProjectBuild, TLC

MCLibraries == {"core", "ui", "base", "fmt"}
MCImported == {"fmt::fmt", "fmt", "gtest::gtest", "catch2::catch2", "helpers"}
MCReserved == {"all"}

MCFiles == {"main.cpp", "core.cpp", "io.cpp", "mod.cppm", "in.txt", "extra.cmake", "tool.cmake"}
MCDirs == {"include", "cmake"}
MCOutside == {"../far.cmake"}
MCPaths == MCFiles \cup MCDirs \cup MCOutside
           \cup {"g1", "g2", "g3", "missing", "*.cpp", "*.cc", "FetchContent"}
MCMatches == [pattern \in {"*.cpp", "*.cc"} |->
                IF pattern = "*.cpp" THEN {"main.cpp", "core.cpp", "io.cpp"} ELSE {}]
MCForeign == {"base"}
MCNames == MCLibraries \cup {"app", "check", "ext", "ext_stub", "all", "gen", "demo", "bad name",
    "TOOLS", "SIZE", "release", "ci", "asan", "loop", "arm", "wrap", "gtest", "catch2", "pybind11", "nanobind",
    "helpers"}
MCWords == {"auto", "vcpkg", "pip", "debug", "release", ""}
MCBadNames == {"bad name"}
MCStandards == {17, 20}
MCSanitizers == {"address", "thread"}
MCBuildType == [debug |-> "Debug", release |-> "Release"]
MCManagers == {"auto", "vcpkg"}
MCFormats == {"zip"}

P(name, version) ==
    [name |-> name, version |-> version, gives |-> {name \o "::" \o name}, inner |-> {name},
     exports |-> {}]
Unscoped(name, inner) == [P(name, "1") EXCEPT !.gives = {name}, !.inner = inner]
Binding(name) == [name |-> name, version |-> "2", gives |-> {name \o "::" \o name},
    inner |-> {}, exports |-> {}]
MCFrameworkPackage == [gtest |-> P("gtest", "1"), catch2 |-> P("catch2", "3")]
MCBindingPackage == [pybind11 |-> Binding("pybind11"), nanobind |-> Binding("nanobind")]

-----------------------------------------------------------------------------
(* Calls.                                                                  *)

Default == [sanitize |-> {}, std |-> 0, pch |-> {}, unity |-> FALSE, lint |-> FALSE]
T(name, kind, sources, headers, backend) ==
    [name |-> name, kind |-> kind, sources |-> sources, modules |-> {}, headers |-> headers,
     generated |-> {}, dirs |-> {}, links |-> {}, settings |-> Default, whens |-> {},
     backend |-> backend, stubs |-> TRUE]
Lib(name, kind) == [op |-> "add_target", node |-> T(name, kind, {"core.cpp"}, {}, "none")]
Interface(name) == [op |-> "add_target", node |-> T(name, "header_only", {}, {"include"}, "none")]
Exe(name) == [op |-> "add_target", node |-> T(name, "executable", {"main.cpp"}, {}, "none")]
TestOf(name, framework) == [op |-> "add_test", node |-> T(name, "test", {"io.cpp"}, {}, framework)]
Python(name, binding) ==
    [op |-> "add_python_module", node |-> T(name, "python", {"core.cpp"}, {}, binding)]
LinkTo(target, to, public) == [op |-> "link", target |-> target, to |-> to, public |-> public]
DependsOn(target, p) == [op |-> "depends", target |-> target, package |-> p, public |-> FALSE]
Add(target, sources, modules, dirs) ==
    [op |-> "add_paths", target |-> target, sources |-> sources, modules |-> modules, dirs |-> dirs]
Set(target, settings) == [op |-> "assign", target |-> target, settings |-> settings]
If(target, options, ok) == [op |-> "when", target |-> target, options |-> options, known |-> ok]
Command(outputs, depends) ==
    [op |-> "add_command", node |-> [outputs |-> outputs, depends |-> depends]]
Custom(name, depends) ==
    [op |-> "add_custom_target", node |-> [name |-> name, depends |-> depends]]
Option(name, type) == [op |-> "option", node |-> [name |-> name, type |-> type]]
Preset(name, optimize, inherits) ==
    [op |-> "add_preset", node |-> [name |-> name, optimize |-> optimize, sanitize |-> {},
        toolchain |-> Nobody, options |-> {}, inherits |-> inherits]]
With(preset, sanitize, toolchain, options) ==
    [preset EXCEPT !.node.sanitize = sanitize, !.node.toolchain = toolchain, !.node.options = options]
ToolchainOf(name, file, compiler, variables) ==
    [op |-> "add_toolchain", node |-> [name |-> name, file |-> file, compiler |-> compiler,
        variables |-> variables]]
InstallOf(target) == [op |-> "install", node |-> [target |-> target, headers |-> TRUE]]
PackageAs(formats) == [op |-> "package", formats |-> formats]
Raw(file) == [op |-> "raw_cmake_file", path |-> file]
IncludeOf(kind, reference, directory, functions) ==
    [op |-> "include", node |-> [kind |-> kind, reference |-> reference, path |-> directory,
        functions |-> functions, calls |-> <<>>]]
Manager(manager, optimize) == [op |-> "set_project", manager |-> manager, optimize |-> optimize]

\* CMake files: they do not change unless scripts about them are run again.
F(works, functions, plain, cached, targets) ==
    [works |-> works, functions |-> functions, plain |-> plain, cached |-> cached,
     targets |-> targets]
Helpers(works, targets) == F(works, {"setup"}, {}, {}, targets)
FetchContent == F(Modes \cup {"project", "again"}, {"declare"}, {}, {}, {})
CMakeFiles(helpers) == ("extra.cmake" :> helpers) @@ ("FetchContent" :> FetchContent)
Plain == {CMakeFiles(Helpers(Modes \cup {"project", "again"}, {}))}

Topic(std, opening, menu, most) ==
    [name |-> "demo", std |-> std, opening |-> opening, menu |-> menu, most |-> most,
     drafts |-> Plain, again |-> FALSE]

-----------------------------------------------------------------------------

Linking == Topic(17,
    <<Lib("core", "static"), Lib("base", "static"), Lib("ui", "shared"), TestOf("check", "none")>>,
    {LinkTo(x, y, FALSE) : x, y \in {"core", "base", "ui"}}
      \cup {LinkTo("check", x, FALSE) : x \in {"core", "base", "ui"}}, 5)

Shapes == Topic(17,
    <<Interface("core"), Exe("app")>>,
    {Set("core", [Default EXCEPT !.sanitize = {"address"}]), Set("core", [Default EXCEPT !.lint = TRUE]),
     Set("core", [Default EXCEPT !.std = 20]), Set("core", [Default EXCEPT !.unity = TRUE]),
     Set("app", [Default EXCEPT !.std = 20]), Set("app", [Default EXCEPT !.sanitize = {"address", "thread"}]),
     Set("app", [Default EXCEPT !.sanitize = {"thread"}, !.pch = {"in.txt"}]),
     Add("core", {"core.cpp"}, {}, {}), Add("core", {}, {"mod.cppm"}, {}), Add("core", {}, {}, {"include"}),
     Add("app", {"*.cpp"}, {}, {}), Add("app", {"*.cc"}, {}, {}), Add("app", {}, {"mod.cppm"}, {"include"}),
     Add("app", {"mod.cppm"}, {}, {})}, 3)

Naming == Topic(17, <<Exe("app")>>,
    {Exe("app"), Exe("all"), Exe("bad name"), Exe("ext_stub"), Lib("odd", "module"),
     Lib("fmt", "shared"), DependsOn("app", P("fmt", "10")), DependsOn("app", Unscoped("fmt", {})),
     TestOf("check", "none"),
     Python("ext", "nanobind"), Custom("app", {}), Custom("gen", {}),
     [op |-> "add_subproject", targets |-> {"app"}], [op |-> "add_subproject", targets |-> {"gen"}]}, 3)

Generating == Topic(17, <<Exe("app")>>,
    {Command({"g1"}, {"in.txt"}), Command({"g2"}, {"g1"}), Command({"g1"}, {"g2"}),
     Command({"g3"}, {"g3"}), Command({"main.cpp"}, {"g2"}), Command({"g3", "g2"}, {"missing"}),
     Command({}, {}), Custom("gen", {"g1"}), Custom("gen", {"../far.cmake"}),
     [op |-> "add_generated", target |-> "app"]}, 4)

Installing == Topic(17,
    <<Lib("core", "static"), Lib("ui", "shared"), TestOf("check", "none")>>,
    {LinkTo("ui", "core", FALSE), LinkTo("ui", "core", TRUE), LinkTo("core", "ui", FALSE),
     LinkTo("core", "base", FALSE), LinkTo("core", "check", FALSE),
     InstallOf("core"), InstallOf("ui"), InstallOf("base"), InstallOf("check"), DependsOn("core", P("fmt", "10")),
     Add("core", {}, {"mod.cppm"}, {}), Set("core", [Default EXCEPT !.std = 20]),
     PackageAs({"zip"}), PackageAs({"rar"})}, 4)

Presetting == Topic(17, <<Exe("app"), Option("TOOLS", "bool")>>,
    {Preset("release", "release", Nobody), Preset("ci", "debug", "release"),
     Preset("release", "release", "ci"), Preset("asan", "debug", "ci"),
     With(Preset("asan", "release", "loop"), {"address"}, Nobody, {}), Preset("loop", "debug", "asan"),
     Preset("loop", "debug", "loop"), Preset("loop", "debug", Nobody),
     Preset("loop", "fast", Nobody),
     With(Preset("asan", "debug", Nobody), {"address", "thread"}, Nobody, {}),
     With(Preset("ci", "release", Nobody), {}, "arm", {[name |-> "TOOLS", type |-> "bool"]}),
     With(Preset("ci", "release", Nobody), {}, Nobody, {[name |-> "TOOLS", type |-> "int"]}),
     ToolchainOf("arm", Nobody, TRUE, FALSE), ToolchainOf("arm", Nobody, FALSE, FALSE),
     ToolchainOf("arm", "tool.cmake", FALSE, FALSE), ToolchainOf("arm", "tool.cmake", FALSE, TRUE),
     ToolchainOf("wrap", "missing", FALSE, FALSE)}, 3)

Requiring2 == Topic(17, <<Exe("app")>>,
    {DependsOn("app", P("fmt", "10")), DependsOn("app", P("fmt", "11")), DependsOn("app", P("gtest", "2")),
     TestOf("check", "gtest"), TestOf("check", "catch2"), TestOf("check", "other"),
     Lib("core", "static"), Exe("gtest"), DependsOn("core", P("fmt", "10")), Python("ext", "pybind11"),
     LinkTo("app", "core", TRUE), Manager("vcpkg", Nobody), Manager("auto", "release"), Manager("pip", Nobody)}, 3)

Including == [Topic(17, <<Exe("app")>>,
    {Exe("helpers"), DependsOn("app", Unscoped("helpers", {"ext"})), TestOf("check", "gtest"),
     [op |-> "add_subproject", targets |-> {"helpers", "ext"}],
     Raw("extra.cmake"), Raw("missing"), Raw("../far.cmake"),
     IncludeOf("file", "extra.cmake", Nobody, {"setup"}), IncludeOf("file", "missing", Nobody, {}),
     IncludeOf("named", "FetchContent", "cmake", {"declare"}), IncludeOf("named", "FetchContent", "missing", {}),
     [op |-> "call", function |-> "setup"], [op |-> "call", function |-> "other"],
     Option("TOOLS", "bool"), Option("TOOLS", "int"), Option("SIZE", "list"),
     If("app", {"TOOLS"}, TRUE), If("app", {}, FALSE)}, 3)
    EXCEPT !.drafts = {CMakeFiles(Helpers(works, {"helpers"})) :
        works \in {Modes, Modes \cup {"project"}, Modes \cup {"project", "again"}}}]

\* A file that comes and goes between the ways in which CMake can run it.
Drafts ==
    {F(Modes \cup {"project"}, {"setup"}, {"VERSION"}, {}, {}),
     F({"none", "cxx", "project", "again"}, {"setup", "report"}, {}, {"VERSION"}, {"helpers"}),
     F({"cxx"}, {"report"}, {"FLAGS"}, {"VERSION"}, {"helpers", "objects"}),
     F({"script"}, {"setup"}, {"FLAGS"}, {"VERSION"}, {"helpers"}),
     F({}, {"report"}, {}, {"VERSION"}, {"objects"})}

Reflecting ==
    [Topic(17, <<Exe("app")>>,
        {IncludeOf("file", "extra.cmake", Nobody, file.functions) : file \in Drafts}
        \cup {IncludeOf("file", "missing", Nobody, {}),
              [op |-> "call", function |-> "setup"], [op |-> "call", function |-> "report"]}, 4)
     EXCEPT !.drafts = {"extra.cmake" :> file : file \in Drafts}, !.again = TRUE]
MCReflecting == {Reflecting}

MCTopics == {Reflecting, Linking, Shapes, Naming, Generating, Installing, Presetting, Requiring2, Including}
=============================================================================
