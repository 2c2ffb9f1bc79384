------------------------------ MODULE ModuleNames ------------------------------
(***************************************************************************)
(* The names of src/mcp_baf/dumpindex/modulenames.py: the path of a .bsl   *)
(* file in the dump, as a sequence of segments, becomes the name of the    *)
(* module, and the name is taken apart into what search_code filters by.   *)
(*                                                                         *)
(* A name is the sequence of its segments between dots. The Russian words  *)
(* are given in English; NFC is left out, paths are equal or not.          *)
(***************************************************************************)
EXTENDS Naturals, Sequences, FiniteSets

EXTENSIONS == "Extensions"  \* EXTENSION_DIR_NAME

\* DUMP_DIR_NAMES, of which the rest are like the first.
DumpDirNames == [Catalogs |-> "Catalog", CommonModules |-> "CommonModule", CommonForms |-> "CommonForm",
                 CalculationRegisters |-> "CalculationRegister"]
Prefix(category) == IF category \in DOMAIN DumpDirNames THEN DumpDirNames[category] ELSE category

\* MODULE_NAME_SUFFIXES: the segment for a file, whose stem stays otherwise.
FileSuffixes == [ObjectModule |-> "ModuleOfObject", Module |-> "ModuleOfForm", CommandModule |-> "ModuleOfCommand",
                 RecordSetModule |-> "ModuleOfRecordSet"]
Suffix(file) == IF file \in DOMAIN FileSuffixes THEN FileSuffixes[file] ELSE file

\* SUBDIR_SEGMENT_NAMES
Subdirs == [Forms |-> "Form", Commands |-> "Command"]

Segments(parts) == {parts[i] : i \in DOMAIN parts}
From(parts, i) == SubSeq(parts, i, Len(parts))

\* The first segment that is Forms or Commands and has another one behind it.
Child(parts) ==
    {i \in 1 .. Len(parts) - 1 :
        parts[i] \in DOMAIN Subdirs /\ \A j \in 1 .. i - 1 : parts[j] \notin DOMAIN Subdirs}

\* Mutant: the name of the form or command is left out.
BaseWithoutChild(parts) ==
    LET file == parts[Len(parts)] IN
    <<Prefix(parts[1]), parts[2]>>
        \o (IF Child(parts) = {} THEN <<>> ELSE <<Subdirs[parts[CHOOSE i \in Child(parts) : TRUE]]>>)
        \o <<IF parts[1] = "CommonModules" /\ file = "Module" /\ "Forms" \notin Segments(parts)
             THEN "Module" ELSE Suffix(file)>>

\* _base_config_module_name, for at least two segments.
BaseName(parts) ==
    LET file == parts[Len(parts)]
        child == {<<Subdirs[parts[i]], parts[i + 1]>> : i \in Child(parts)} IN
    <<Prefix(parts[1]), parts[2]>>
        \o (IF child = {} THEN <<>> ELSE CHOOSE segment \in child : TRUE)
        \o <<IF parts[1] = "CommonModules" /\ file = "Module" /\ "Forms" \notin Segments(parts)
             THEN "Module" ELSE Suffix(file)>>

\* bsl_path_to_module_name
PathName(parts) ==
    CASE Len(parts) < 2 -> parts
      [] Len(parts) >= 4 /\ parts[1] = EXTENSIONS -> <<"ext", parts[2]>> \o BaseName(From(parts, 3))
      [] OTHER -> BaseName(parts)

\* The depth of the longest proper prefix that is a root.
RootDepth(parts, roots) ==
    LET depths == {k \in 1 .. Len(parts) - 1 : SubSeq(parts, 1, k) \in DOMAIN roots}
    IN {k \in depths : \A j \in depths : j <= k}

\* resolve_module_name: a module in a root of an extension is named in its
\* namespace, unless less than two segments are left.
ModuleName(parts, roots) ==
    IF parts[1] # EXTENSIONS /\ \E k \in RootDepth(parts, roots) : k + 2 <= Len(parts)
    THEN LET k == CHOOSE d \in RootDepth(parts, roots) : TRUE
         IN <<"ext", roots[SubSeq(parts, 1, k)]>> \o BaseName(From(parts, k + 1))
    ELSE PathName(parts)

\* parse_module_name
NameParts(name) ==
    [category |-> IF Len(name) >= 2 THEN name[1] ELSE "",
     object   |-> IF Len(name) >= 2 THEN name[2] ELSE name[1],
     module   |-> IF Len(name) >= 3 THEN name[Len(name)] ELSE ""]

================================================================================
