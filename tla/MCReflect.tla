----------------------------- MODULE MCReflect ------------------------------
(* Builds of the small game of UnrealGame, and a reader attached to each.   *)
EXTENDS Reflect

(* The pool: small counts and the high half of a pointer resolve too.        *)
High == 70
Stock == [tail |-> 0, chain |-> FALSE, ffield |-> TRUE, counters |-> 4,
          narrow |-> FALSE, split |-> FALSE, pair |-> 4, decoy |-> FALSE,
          trailing |-> TRUE, hook |-> "none"]

Ordinary ==
  {Stock,
   [Stock EXCEPT !.ffield = FALSE, !.decoy = TRUE],
   [Stock EXCEPT !.chain = TRUE, !.decoy = TRUE, !.hook = "wrong"],
   [Stock EXCEPT !.chain = TRUE, !.counters = 6, !.narrow = TRUE, !.split = TRUE,
                 !.hook = "right"],
   [Stock EXCEPT !.tail = 2, !.narrow = TRUE]}

GameOf(build, collected, loaded) ==
  [build |-> build, collected |-> collected, loaded |-> loaded]
MCFirst == {GameOf(b, FALSE, FALSE) : b \in Ordinary}
MCLater(g) == {[g EXCEPT !.collected = TRUE], [g EXCEPT !.loaded = TRUE]} \ {g}

Classes ==
  <<"Object", "Field", "Struct", "Class", "ScriptStruct", "Function", "Enum", "Package",
    "Interface", "BlueprintGeneratedClass", "Actor", "Usable", "Pawn", "Weapon", "Widget",
    "Property", "FloatProperty", "IntProperty", "ByteProperty", "BoolProperty", "EnumProperty", "ArrayProperty",
    "StructProperty", "ObjectProperty", "Door_C", "Gate_C">>
Defaults == [k \in DOMAIN Classes |-> "Default__" \o Classes[k]]
Pool ==
  <<"None", "Health", "Mode", "bHidden", "bNative", "Items", "Home", "Owner", "Angle",
    "X", "Y", "Z", "Where", "Damage", "Who", "Lo", "Hi", "Kind", "Tags", "Count", "Amount",
    "Inner", "TakeHit", "Use", "Open", "Close", "Tick", "Begin", "Fire", "Reload",
    "Draw", "Move", "Idle", "Run", "Speed", "Ammo", "Rank", "Wait", "Low", "High", "Vector", "Hit", "Span", "Slot", "EMode",
    "EKind", "/Script/CoreUObject", "/Script/Engine", "/Game/Door">>
  \o Classes \o Defaults
G == INSTANCE UnrealGame WITH Names <- Pool

MCNameText == Tabled([id \in 0 .. Len(Pool) - 1 |-> Pool[id + 1]])
MCPropertyTypes == {Classes[k] : k \in 17 .. 24}
MCDefaultNames == {Defaults[k] : k \in DOMAIN Defaults}
Games == {GameOf(b, collected, loaded) : b \in Ordinary, collected, loaded \in BOOLEAN}
Memories == Tabled([g \in Games |-> G!MemoryOf(g)])
Declarations == Tabled([g \in Games |-> G!RecordsOf(g)])
Layouts == Tabled([g \in Games |-> G!LayoutOf(g.build)])
MCImage(g) == Memories[g]
MCDescribed(g) == Declarations[g]
MCTruth(g) == Layouts[g]
MCHint(g) == CASE g.build.hook = "right" -> {20}
               [] g.build.hook = "wrong" -> {100}
               [] OTHER -> {}
MCCode == {G!Code(n) : n \in 0 .. 40}
=============================================================================
