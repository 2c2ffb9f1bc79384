-------------------------------- MODULE ExtRoots --------------------------------
(***************************************************************************)
(* discover_extension_roots of src/mcp_baf/dumpindex/extroots.py: the dump *)
(* is searched, two levels deep and with a budget of manifests, for        *)
(* directories that hold an extension; the names of their manifests become *)
(* the namespaces of ModuleNames.                                          *)
(*                                                                         *)
(* Abstractions.                                                           *)
(*  - A directory is the path to it. What a directory is gets chosen when  *)
(*    the scan comes to it, and is kept in `found`.                        *)
(*  - A manifest gives the name of its extension, or it is Unnamed: not an *)
(*    extension, or without a name; or it is Broken: damaged, unsafe, or   *)
(*    outside of the dump.                                                 *)
(*  - ExternalDataSources/, which is not rejected either, holds what        *)
(*    DESIGNER writes there: neither a manifest nor a wrapper of one.      *)
(*  - A directory Extensions/ that cannot be listed is one without         *)
(*    directories, for the scan and for the walk of the index.             *)
(***************************************************************************)
EXTENDS ModuleNames, Integers

CONSTANTS
    Tops,       \* directories of the dump, in sorted order
    ManifestNames,
    Unnamed, Broken,
    MaxNested,  \* MAX_NESTED_SCAN_ENTRIES
    MaxReads    \* MAX_MANIFEST_READS

ASSUME ExtRootsAssumption ==
    /\ MaxNested \in Nat /\ MaxReads \in Nat
    /\ Len(Tops) \in Nat /\ DOMAIN Tops = 1 .. Len(Tops)
    /\ \A i, j \in DOMAIN Tops : Tops[i] = Tops[j] => i = j
    /\ \A i \in DOMAIN Tops : Tops[i] # "ExternalDataSources"
    /\ IsFiniteSet(ManifestNames) /\ Unnamed # Broken /\ {Unnamed, Broken} \cap ManifestNames = {}

VARIABLES
    scan,     \* "start", "scan" or "done"
    claimed,  \* names of directories below Extensions/
    queue,    \* directories still to look at
    budget,   \* reads_budget[0]
    byName,   \* the directories of each manifest name, in the order of the scan
    warned,   \* for each kind of warning, where it was logged or for which name
    roots,    \* the result
    found     \* history: what every directory was, and how the scan dealt with it

extVars == <<scan, claimed, queue, budget, byName, warned, roots, found>>

Warnings == {"budget", "manifest", "wide", "disputed"}
Hows == {"passed", "read", "skipped", "entered", "wide", "unlisted"}

ExtInit ==
    /\ scan = "start" /\ claimed = {} /\ queue = <<>> /\ budget = MaxReads
    /\ byName = [n \in ManifestNames |-> {}]
    /\ warned = [w \in Warnings |-> {}] /\ roots = <<>> /\ found = <<>>

\* _rejected_dir_name. On the second level the names are numbers, which are none
\* of these.
Rejected(directory) == directory[1] \in DOMAIN DumpDirNames \cup {EXTENSIONS}

Warn(kind) == warned' = [warned EXCEPT ![kind] = @ \cup {Head(queue)}]

\* _list_dirs takes a directory that cannot be listed for an empty one: this dump,
\* or the one of Descend.
StartScan ==
    /\ scan = "start" /\ scan' = "scan"
    /\ claimed' \in SUBSET ManifestNames
    /\ queue' \in {<<>>, [i \in DOMAIN Tops |-> <<Tops[i]>>]}
    /\ UNCHANGED <<budget, byName, warned, roots, found>>

Found(what, how) ==
    found' = [d \in DOMAIN found \cup {Head(queue)} |->
                 IF d = Head(queue) THEN [what |-> what, how |-> how] ELSE found[d]]

\* A directory that is rejected, also a standard or hidden one, or, on the second
\* level, one without a manifest.
PassOver ==
    /\ scan = "scan" /\ queue # <<>>
    /\ Found(Unnamed, "passed") /\ queue' = Tail(queue)
    /\ UNCHANGED <<scan, claimed, budget, byName, warned, roots>>

\* Mutant: the budget is not taken below zero, and every skip is logged.
ReadManifestAlwaysWarn ==
    /\ scan = "scan" /\ queue # <<>> /\ ~Rejected(Head(queue))
    /\ \E manifest \in ManifestNames \cup {Unnamed, Broken} :
          IF budget <= 0
          THEN /\ Found(manifest, "skipped") /\ Warn("budget") /\ UNCHANGED <<budget, byName>>
          ELSE /\ Found(manifest, "read") /\ budget' = budget - 1
               /\ IF manifest = Broken THEN Warn("manifest") ELSE UNCHANGED warned
               /\ byName' = [n \in ManifestNames |->
                      byName[n] \cup IF n = manifest THEN {Head(queue)} ELSE {}]
    /\ queue' = Tail(queue)
    /\ UNCHANGED <<scan, claimed, roots>>

\* _manifest_name. The first manifest beyond the budget is logged, and takes the
\* budget below zero; the others are silent.
ReadManifest ==
    /\ scan = "scan" /\ queue # <<>> /\ ~Rejected(Head(queue))
    /\ \E manifest \in ManifestNames \cup {Unnamed, Broken} :
          IF budget <= 0
          THEN /\ Found(manifest, "skipped") /\ UNCHANGED byName
               /\ IF budget = 0 THEN Warn("budget") /\ budget' = budget - 1
                                ELSE UNCHANGED <<warned, budget>>
          ELSE /\ Found(manifest, "read") /\ budget' = budget - 1
               /\ IF manifest = Broken THEN Warn("manifest") ELSE UNCHANGED warned
               /\ byName' = [n \in ManifestNames |->
                      byName[n] \cup IF n = manifest THEN {Head(queue)} ELSE {}]
    /\ queue' = Tail(queue)
    /\ UNCHANGED <<scan, claimed, roots>>

\* A directory of the first level without a manifest: its own directories are next,
\* unless they are too many, or cannot be listed, which no log tells.
Descend ==
    /\ scan = "scan" /\ queue # <<>> /\ Len(Head(queue)) = 1 /\ ~Rejected(Head(queue))
    /\ \/ /\ Found(Unnamed, "entered") /\ UNCHANGED warned
          /\ \E n \in 0 .. MaxNested :
                queue' = [i \in 1 .. n |-> Append(Head(queue), i)] \o Tail(queue)
       \/ Found(Unnamed, "wide") /\ Warn("wide") /\ queue' = Tail(queue)
       \/ Found(Unnamed, "unlisted") /\ UNCHANGED warned /\ queue' = Tail(queue)
    /\ UNCHANGED <<scan, claimed, budget, byName, roots>>

\* Mutant: of several directories the first one wins.
DisputedClaimed(n) == n \in claimed

Disputed(n) == n \in claimed \/ Cardinality(byName[n]) > 1

\* Every entry of a disputed name is dropped, whatever the order of the scan.
SettleNames ==
    /\ scan = "scan" /\ queue = <<>> /\ scan' = "done"
    /\ LET sure == {n \in ManifestNames : byName[n] # {} /\ ~Disputed(n)} IN
       roots' = [d \in {CHOOSE e \in byName[n] : TRUE : n \in sure} |->
                    CHOOSE n \in sure : d \in byName[n]]
    /\ warned' = [warned EXCEPT !["disputed"] =
                     {n \in ManifestNames : byName[n] # {} /\ Disputed(n)}]
    /\ UNCHANGED <<claimed, queue, budget, byName, found>>

ExtNext == StartScan \/ PassOver \/ ReadManifest \/ Descend \/ SettleNames

RootsSpec == ExtInit /\ [][ExtNext]_extVars

--------------------------------------------------------------------------------
(* Properties *)

ExtTypeOK ==
    /\ scan \in {"start", "scan", "done"} /\ claimed \subseteq ManifestNames
    /\ budget \in -1 .. MaxReads
    /\ DOMAIN warned = Warnings /\ warned["disputed"] \subseteq ManifestNames
    /\ \A w \in Warnings \ {"disputed"} : warned[w] \subseteq DOMAIN found
    /\ DOMAIN roots \subseteq DOMAIN found
    /\ Cardinality({d \in DOMAIN found : found[d].how = "read"}) <= MaxReads

Holds(d, n) == found[d].what = n
Dealt(how) == {d \in DOMAIN found : found[d].how = how}
Skipped == Dealt("skipped")

\* "On overflow a warning, silence is forbidden": an extension the scan came to and
\* whose modules get no namespace has a name that the log calls disputed, or its
\* manifest was beyond the budget, which is logged exactly once, though the budget
\* may run out in the middle of a wrapper with many left; and the log names every
\* wrapper that was too wide. (Silent is what _list_dirs could not list.)
NoSilentLoss ==
    scan = "done" =>
        /\ IF Skipped = {} THEN warned["budget"] = {}
                           ELSE \E d \in Skipped : warned["budget"] = {d}
        /\ warned["wide"] = Dealt("wide")
        /\ \A d \in DOMAIN found, n \in ManifestNames :
              Holds(d, n) /\ d \notin DOMAIN roots => n \in warned["disputed"] \/ d \in Skipped

\* "The order of the scan must not decide who is the real one": the roots are the
\* directories whose manifest was read and has a name nobody else has, neither
\* another manifest that was read nor a directory below Extensions. (Of two
\* directories of one name only the first may be within the budget: then it wins.)
RootsAreUndisputed ==
    scan = "done" =>
        \A d \in DOMAIN found, n \in ManifestNames :
            (d \in DOMAIN roots /\ roots[d] = n) =
                /\ d \in Dealt("read") /\ Holds(d, n) /\ n \notin claimed
                /\ \A e \in Dealt("read") : Holds(e, n) => e = d

\* Modules of the main configuration, of a recognized extension and of one below
\* Extensions, as DESIGNER writes their files. An object that is nested in another
\* one and is neither form nor command has modules, forms and commands of its own.
NestedFiles ==
    {<<"CalculationRegisters", "A", "Recalculations", "R", "Ext", "RecordSetModule">>,
     <<"ExternalDataSources", "A", "Tables", "T", "Ext", "ObjectModule">>,
     <<"ExternalDataSources", "A", "Tables", "T", "Forms", "F", "Ext", "Form", "Module">>}
OwnFiles ==
    {<<"Catalogs", "A", "Ext", "ObjectModule">>, <<"CommonModules", "A", "Ext", "Module">>,
     <<"CalculationRegisters", "A", "Ext", "RecordSetModule">>,
     <<"CommonForms", "A", "Ext", "Form", "Module">>,
     <<"Catalogs", "A", "Forms", "F", "Ext", "Form", "Module">>,
     <<"Catalogs", "A", "Forms", "G", "Ext", "Form", "Module">>,
     <<"Catalogs", "A", "Commands", "F", "Ext", "CommandModule">>}
Files == OwnFiles \cup NestedFiles
Homes == {<<>>} \cup DOMAIN roots \cup {<<EXTENSIONS, n>> : n \in claimed}
Modules == {home \o file : home \in Homes, file \in OwnFiles}
Owner(home) ==
    CASE home = <<>> -> <<>>
      [] home \in DOMAIN roots -> <<"ext", roots[home]>>
      [] OTHER -> <<"ext", home[2]>>

\* A hit of search_code names one module: of the modules of objects, of their forms
\* and of their commands, in the configuration and its recognized extensions, no two
\* have the same name. The name of any module says whose file it is, but not which
\* nested object it belongs to: those get the names of the modules of their owner.
NamesTellApart ==
    scan = "done" =>
        /\ Cardinality({ModuleName(m, roots) : m \in Modules}) = Cardinality(Modules)
        /\ \A home \in Homes, file \in Files :
              ModuleName(home \o file, roots) = Owner(home) \o BaseName(file)

\* "Without the manifest ... the filters category and module do not find them",
\* says extroots.py of the modules of an extension, and docs/search-and-index.md
\* that category is the type of the metadata: the module of a recognized extension
\* has the category of its object.
CategoryFinds ==
    scan = "done" =>
        \A home \in DOMAIN roots, file \in Files :
            NameParts(ModuleName(home \o file, roots)).category = NameParts(BaseName(file)).category

================================================================================
