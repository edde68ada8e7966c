---------------------------- MODULE ObjCRuntime ----------------------------
(***************************************************************************)
(* What the reporter makes of a word that may be an Objective-C object     *)
(* (CrasheeObjC.c).  It only reads memory, and believes what it finds as   *)
(* far as it has checked it.                                               *)
(*                                                                         *)
(* A cell of the heap is what lies at a readable address: what its first   *)
(* word points to, what the words are if they are read as a class, whether *)
(* they are a C string, and the values of an object of that class.         *)
(***************************************************************************)
EXTENDS Integers, Sequences

CONSTANTS
    Heap,       \* the readable addresses, with a cell for each
    Tagged      \* the tagged pointers, with the slot of each

Null == "NULL"
NoClass == [name |-> Null]

(* class_t with what it leads to.  named: the name is one that isValidName   *)
(* takes; an ivar is valid if its entry, its offset, its name and its type   *)
(* are.                                                                      *)
IvarType == [name : STRING, pointer : BOOLEAN, valid : BOOLEAN]

ClassRecord ==
    [name : STRING, named : BOOLEAN, meta : BOOLEAN, root : BOOLEAN, superclass : STRING,
     ivars : Seq(IvarType)]

CellType ==
    [isa : STRING, class : ClassRecord \cup {NoClass}, text : BOOLEAN, items : Seq(STRING),
     ivars : Seq(STRING)]

ASSUME HeapAssumption ==
    /\ \A p \in DOMAIN Heap : Heap[p] \in CellType
    /\ \A p \in DOMAIN Tagged : Tagged[p] \in 0 .. 7
    /\ Null \notin DOMAIN Heap \cup DOMAIN Tagged

Readable(p) == p \in DOMAIN Heap
IsaPointer(p) == Heap[p].isa
Class(p) == Heap[p].class

-----------------------------------------------------------------------------
(* The slots of tagged pointers.  A class without a type is not valid.       *)
TaggedClassData ==
    << <<"NSAtom", "Unknown">>, <<Null, "Unknown">>, <<"NSString", "String">>,
       <<"NSNumber", "Number">>, <<"NSIndexPath", "Unknown">>,
       <<"NSManagedObjectID", "Unknown">>, <<"NSDate", "Date">>, <<Null, "Unknown">> >>

IsTagged(p) == p \in DOMAIN Tagged
TaggedClass(p) == TaggedClassData[Tagged[p] + 1]
IsValidTaggedPointer(p) == IsTagged(p) /\ TaggedClass(p)[2] # "Unknown"

(* The classes whose contents the reporter knows how to read.                *)
ClassTypes ==
    [String |-> {"__NSCFString", "NSCFString", "__NSCFConstantString", "NSCFConstantString"},
     Array |-> {"__NSArray0", "__NSArrayI", "__NSArrayM", "__NSCFArray", "NSCFArray"},
     Date |-> {"__NSDate", "NSDate"},
     Number |-> {"__NSCFNumber", "NSCFNumber", "NSNumber"},
     URL |-> {"NSURL"}]

ClassType(name) ==
    IF \E t \in DOMAIN ClassTypes : name \in ClassTypes[t]
    THEN CHOOSE t \in DOMAIN ClassTypes : name \in ClassTypes[t]
    ELSE "Unknown"

-----------------------------------------------------------------------------
ContainsValidROData(p) == Readable(p) /\ Class(p) # NoClass

(* The loop over the ivars begins with the second.                           *)
ContainsValidIvarData(p) ==
    \A i \in DOMAIN Class(p).ivars : i > 1 => Class(p).ivars[i].valid

IsValidClass(p) ==
    ContainsValidROData(p) /\ Class(p).named /\ ContainsValidIvarData(p)

IsValidObject(p) ==
    IF IsTagged(p) THEN IsValidTaggedPointer(p) ELSE Readable(p) /\ IsValidClass(IsaPointer(p))

(* The class below the root of a class's chain of at most 20, if every class *)
(* in between can be read.                                                   *)
Above(p) == IF ContainsValidROData(p) THEN Class(p).superclass ELSE Null

BaseClass(p) ==
    LET up[i \in 0 .. 19] == IF i = 0 THEN p ELSE Above(up[i - 1])
        roots == {i \in 0 .. 19 : ContainsValidROData(up[i]) /\ Class(up[i]).root}
        first == CHOOSE i \in roots : \A j \in roots : i <= j
    IN  IF roots = {} THEN Null ELSE up[IF first = 0 THEN 0 ELSE first - 1]

IsBlockClass(p) == BaseClass(p) # Null /\ Class(BaseClass(p)).name = "NSBlock"

(* Even an object is asked to be a valid class itself.                       *)
ObjectType(p) ==
    IF p = Null THEN "Unknown"
    ELSE IF IsTagged(p) THEN "Object"
    ELSE IF ~IsValidObject(p) \/ ~IsValidClass(p) THEN "Unknown"
    ELSE IF IsBlockClass(IsaPointer(p)) THEN "Block"
    ELSE IF Class(IsaPointer(p)).meta THEN "Class"
    ELSE "Object"

ObjectClassName(p) ==
    IF ~IsTagged(p) THEN Class(IsaPointer(p)).name
    ELSE IF IsValidTaggedPointer(p) THEN TaggedClass(p)[1] ELSE Null

ObjectClassType(p) ==
    IF IsTagged(p) THEN TaggedClass(p)[2] ELSE ClassType(Class(IsaPointer(p)).name)

(* crasheeobjc_arrayContents(object, &first, 1): a mutable NSArray's are not *)
(* read.                                                                     *)
ArrayContents(p) ==
    IF Class(IsaPointer(p)).name = "__NSArrayM" THEN <<>>
    ELSE SubSeq(Heap[p].items, 1, IF Heap[p].items = <<>> THEN 0 ELSE 1)

(* ivarList copies the ivars' names and types, the first one's unseen.       *)
IvarList(p, count) ==
    LET ivars == Class(IsaPointer(p)).ivars
    IN  SubSeq(ivars, 1, IF Len(ivars) < count THEN Len(ivars) ELSE count)
=============================================================================
