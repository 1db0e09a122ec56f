------------------------------- MODULE Scope -------------------------------
(***************************************************************************)
(* The scope tools (tools/inventory_v2.py, tools/classify_v2_scope.py and  *)
(* tools/verify_v2_removal.py).  An inventory lists the units of one       *)
(* commit, the ledger gives each unit of an inventory an action, and the   *)
(* verdict says whether what the ledger deletes is gone from the working   *)
(* tree.  The two files lie side by side under evidence/v2-rebuild and     *)
(* each is replaced on its own.  A content of the tree is a version; how   *)
(* its text is parsed into units is given with the version.                *)
(***************************************************************************)
EXTENDS Naturals, Sequences, FiniteSets

CONSTANTS
  Trees,     \* the contents the working tree goes through, oldest first:
             \*   paths  the tracked paths, sorted
             \*   text   path -> whether its text matches DOMAIN_PATTERN, FORBIDDEN
             \*   items  class -> its items, each with the path it lies in
             \*   sealed whether each contract package reproduces its manifest
             \*   lock   the closure inputs, Cargo.lock and flake.lock
             \*   flake  the bindings and outputs of flake.nix
  Area,      \* path -> the prefix of classify_path that it lies under
  Explicit,  \* path -> action of the contract's disposition for it, or "none"
  Named,     \* paths with a domain term in their name
  Rejected,  \* closure names with a domain term or a legacy packet number
  Policy     \* POLICY_PATHS

ItemClasses == {"public_semantics", "dependencies", "generated_artifacts"}

ASSUME ScopeAssumption ==
  /\ Trees \in Seq([paths: Seq(DOMAIN Area), text: Seq([domain: BOOLEAN, forbidden: BOOLEAN]),
                    items: [ItemClasses -> Seq([path: DOMAIN Area, required: BOOLEAN])],
                    sealed: BOOLEAN, lock: Nat, flake: {Trees[i].flake : i \in DOMAIN Trees}])
  /\ Len(Trees) > 0
  /\ DOMAIN Explicit = DOMAIN Area
  /\ Named \subseteq DOMAIN Area /\ Policy \subseteq DOMAIN Area

VARIABLES
  tree,      \* the version in the working tree
  head,      \* the version HEAD names
  inventory, \* inventory.json: the version it lists, 0 while there is none
  ledger     \* disposition-ledger.json: the version it classifies, 0 while there is none

scopeVars == <<tree, head, inventory, ledger>>

Tracked(v) == {Trees[v].paths[i] : i \in DOMAIN Trees[v].paths}
Text(v, p) == Trees[v].text[CHOOSE i \in DOMAIN Trees[v].paths : Trees[v].paths[i] = p]

-----------------------------------------------------------------------------
(* The declared build graph.  A binding has its first identifier, the names *)
(* its expression mentions, the packages and source paths it uses, and      *)
(* which of the constructor, lambda and package-list patterns it matches.   *)

Matching(flake, pattern) == {b \in DOMAIN flake.binding : flake.binding[b][pattern]}
Factories(flake) == Matching(flake, "lambda") \cap Matching(flake, "constructor")

\* A binding is a derivation when it constructs one, or when its expression starts
\* with a derivation or a factory: the least set closed under that.
Derivations(flake) ==
  LET names == DOMAIN flake.binding
      grow[n \in 0..Cardinality(names)] ==
        IF n = 0 THEN Matching(flake, "constructor") \ Factories(flake)
        ELSE grow[n - 1] \cup {b \in names :
               flake.binding[b].first \in grow[n - 1] \cup Factories(flake)}
  IN grow[Cardinality(names)]

\* The members of the closure: workspace crates, nodes, outputs, and the edges that
\* leave them.  A list's and a factory's packages are targets; an output's edge reaches
\* no factory.
Members(v) ==
  LET flake == Trees[v].flake
      derived == Derivations(flake)
      lists == Matching(flake, "list")
      nodes == derived \cup lists \cup Factories(flake)
  IN  {<<"cargo-workspace", c>> : c \in flake.crates}
      \cup {<<"node", b>> : b \in nodes}
      \cup UNION {{<<"edge", b, d>> : d \in flake.binding[b].mentions \cap (nodes \ {b})} :
                    b \in derived \cup Factories(flake)}
      \cup UNION {{<<"edge", b, d>> : d \in flake.binding[b].uses} : b \in lists \cup Factories(flake)}
      \cup {<<"output", o>> : o \in DOMAIN flake.output}
      \cup UNION {{<<"output-edge", o, d>> : d \in flake.output[o] \cap (derived \cup lists)} :
                    o \in DOMAIN flake.output}

-----------------------------------------------------------------------------
(* The ledger of an inventory                                               *)

\* classify_path: the first rule that applies.
PathAction(v, p) ==
  CASE Explicit[p] # "none" -> Explicit[p]
    [] Explicit[p] = "none" /\ p \in Named -> "DELETE"
    [] Explicit[p] = "none" /\ p \notin Named /\ Area[p] = "package" -> "RETAIN"
    [] Explicit[p] = "none" /\ p \notin Named /\ Area[p] \in {"evidence", "rebuild", "generated"}
         /\ ~Text(v, p).domain -> "REGENERATE"
    [] OTHER -> "DELETE_AND_REBUILD"

\* A unit inherits from the file it lies in, but what a retained package executes or
\* depends on is never retained with it, and a required generated class is made anew.
ItemAction(v, class, item) ==
  LET parent == PathAction(v, item.path) IN
  CASE class = "generated_artifacts" /\ parent # "RETAIN" /\ item.required -> "REGENERATE"
    [] class # "generated_artifacts" /\ parent = "RETAIN" -> "DELETE_AND_REBUILD"
    [] OTHER -> parent

MemberAction(m) ==
  IF \E i \in 2..Len(m) : m[i] \in Rejected THEN "DELETE" ELSE "DELETE_AND_REBUILD"

FinalActions == {"RETAIN", "DELETE", "DELETE_AND_REBUILD", "REGENERATE"}

\* No ledger is written unless the packages are the pinned ones, every path has a
\* final action, and what is retained lies in a package, whose gates are its evidence.
Classifiable(v) ==
  /\ v # 0
  /\ Trees[v].sealed
  /\ \A p \in Tracked(v) : /\ PathAction(v, p) \in FinalActions
                          /\ PathAction(v, p) = "RETAIN" => Area[p] = "package"

-----------------------------------------------------------------------------
(* The verdict on the working tree                                          *)

Listed(v, class) ==
  IF class = "tracked_paths" THEN Trees[v].paths
  ELSE [i \in DOMAIN Trees[v].items[class] |-> Trees[v].items[class][i].path]

Action(v, class, i) ==
  IF class = "tracked_paths" THEN PathAction(v, Trees[v].paths[i])
  ELSE ItemAction(v, class, Trees[v].items[class][i])

PathClasses == ItemClasses \cup {"tracked_paths"}

\* The tool stops unless inventory and ledger have as many items in each class.
SameLengths(inv, led) ==
  /\ \A class \in PathClasses : Len(Listed(inv, class)) = Len(Listed(led, class))
  /\ Cardinality(Members(inv)) = Cardinality(Members(led))

\* Mutant: only the items in files are looked up, not the tracked paths themselves.
RemainingUnits(t, inv, led) ==
  {x \in UNION {{<<Listed(inv, class)[i], Action(led, class, i)>> :
                   i \in DOMAIN Listed(inv, class)} : class \in ItemClasses} :
     x[2] = "DELETE" /\ x[1] \in Tracked(t)}

\* Item i of the inventory is judged by record i of the ledger: the pairing is by
\* position, and the identity in the record is not compared.
Remaining(t, inv, led) ==
  {x \in UNION {{<<Listed(inv, class)[i], Action(led, class, i)>> :
                   i \in DOMAIN Listed(inv, class)} : class \in PathClasses} :
     x[2] = "DELETE" /\ x[1] \in Tracked(t)}

RemainingMembers(t, led) == {m \in Members(led) : MemberAction(m) = "DELETE"} \cap Members(t)

\* Policy files may name what they forbid: those listed, those of a package that
\* reproduces its manifest, and inventoried ones that are as committed.
Exempt(t, hd, inv, p) ==
  \/ p \in Policy
  \/ Area[p] = "package" /\ Trees[t].sealed
  \/ /\ Area[p] \in {"package", "rebuild"}
     /\ p \in Tracked(inv)
     /\ p \in Tracked(hd) /\ Text(hd, p) = Text(t, p)

Contaminated(t, hd, inv) ==
  {p \in Tracked(t) : Text(t, p).forbidden /\ ~Exempt(t, hd, inv, p)}

Valid(t, hd, inv, led) ==
  /\ inv # 0 /\ led # 0
  /\ SameLengths(inv, led)
  /\ Remaining(t, inv, led) = {}
  /\ RemainingMembers(t, led) = {}
  /\ Contaminated(t, hd, inv) = {}

-----------------------------------------------------------------------------
ScopeInit ==
  /\ tree = 1 /\ head = 1
  /\ inventory = 0 /\ ledger = 0

\* Work goes on: the tree takes its next content, which never is an earlier one.
Edit ==
  /\ tree < Len(Trees)
  /\ tree' = tree + 1
  /\ UNCHANGED <<head, inventory, ledger>>

Commit ==
  /\ head # tree
  /\ head' = tree
  /\ UNCHANGED <<tree, inventory, ledger>>

\* inventory_v2.py lists the tree of HEAD, whatever the working tree holds.
TakeInventory ==
  /\ inventory' = head
  /\ inventory # head
  /\ UNCHANGED <<tree, head, ledger>>

\* classify_v2_scope.py reads everything from the tree the inventory names.
Classify ==
  /\ Classifiable(inventory)
  /\ ledger # inventory
  /\ ledger' = inventory
  /\ UNCHANGED <<tree, head, inventory>>

ScopeNext == Edit \/ Commit \/ TakeInventory \/ Classify

ScopeTypeOK ==
  /\ tree \in 1..Len(Trees) /\ head \in 1..tree
  /\ inventory \in 0..Len(Trees) /\ ledger \in 0..Len(Trees)

=============================================================================
