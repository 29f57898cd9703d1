------------------------------- MODULE UsbIds -------------------------------
(***************************************************************************)
(* ParseIDs (usbid/parse.go): the parser of the usb.ids file.  It reads    *)
(* line by line and hangs each line below the vendor, product, class or    *)
(* subclass it has seen last.                                              *)
(*                                                                         *)
(* The object made of a line is the number of the line.  Lines that are    *)
(* empty or comments change nothing and are left out of the file.          *)
(*                                                                         *)
(* Names have the prefix Ids where Descriptors has them too.               *)
(***************************************************************************)
EXTENDS Integers, Sequences, FiniteSetsExt

CONSTANTS
    Ids,        \* identifiers on a line
    MaxLines    \* bound: length of the file

MaxId == 65535      \* ParseUint(..., 16, 16)
RawIds == 0..MaxId

ASSUME UsbIdsAssumption == Ids \subseteq RawIds /\ MaxLines \in Nat

Blocks == {"", "C"}             \* kinds that are parsed: vendors and classes
Kinds == Blocks \cup {"other"}  \* such as AT, HID, L

\* A kind may be given at any level; "" also means that none is given.
Lines == [kind : Kinds, level : 0..3, id : Ids]

Root(block) == IF block = "" THEN 0 ELSE -1     \* the maps vendors and classes
nil == -2

VARIABLES
    status,     \* "read", "done", "malformed" or "refused"
    file,       \* the lines read
    kind,       \* kind
    first,      \* first[b]: vendor, class
    second,     \* second[b]: device, subclass
    entries     \* the maps: what is below an object (or root) under an id

idsVars == <<status, file, kind, first, second, entries>>

IdsTypeOK ==
    LET objects == 1..Len(file) IN
    /\ status \in {"read", "done", "malformed", "refused"}
    /\ file \in Seq(Lines) /\ Len(file) <= MaxLines
    /\ kind \in Kinds
    /\ first \in [Blocks -> objects \cup {nil}]
    /\ second \in [Blocks -> objects \cup {nil}]
    /\ DOMAIN entries \subseteq ({Root(b) : b \in Blocks} \cup objects) \X RawIds
    /\ \A x \in DOMAIN entries : entries[x] \in objects

IdsInit ==
    /\ status = "read"
    /\ file = <<>>
    /\ kind = ""
    /\ first = [b \in Blocks |-> nil]
    /\ second = [b \in Blocks |-> nil]
    /\ entries = [x \in {} |-> nil]

-----------------------------------------------------------------------------
\* A kind that is given holds until the next, whatever the level.
Read(l) ==
    /\ status = "read"
    /\ Len(file) < MaxLines
    /\ file' = Append(file, l)
    /\ kind' = IF l.kind # "" THEN l.kind ELSE kind

This == Len(file')  \* the object made of the line just read

\* gousb.Class, gousb.Protocol: an id of a class has 8 bits, others have 16.
Key(block, id) == IF block = "C" THEN id % 256 ELSE id

Enter(parent, id) ==
    LET key == <<parent, Key(kind', id)>> IN
    entries' = [x \in DOMAIN entries \cup {key} |-> IF x = key THEN This ELSE entries[x]]

\* A vendor or a class.
ParseFirst(l) ==
    /\ Read(l)
    /\ kind' \in Blocks
    /\ l.level = 0
    /\ first' = [first EXCEPT ![kind'] = This]
    /\ Enter(Root(kind'), l.id)
    /\ UNCHANGED <<status, second>>

\* Mutant: the first product or subclass is remembered.
RememberedFirst(b) == [second EXCEPT ![b] = IF @ = nil THEN This ELSE @]

Remembered(b) == [second EXCEPT ![b] = This]

\* A product of the last vendor or a subclass of the last class.
ParseSecond(l) ==
    /\ Read(l)
    /\ kind' \in Blocks
    /\ l.level = 1
    /\ first[kind'] # nil
    /\ second' = Remembered(kind')
    /\ Enter(first[kind'], l.id)
    /\ UNCHANGED <<status, first>>

\* Mutant: that there is a product or subclass is not checked.
HasSecondAlways(b) == TRUE

HasSecond(b) == second[b] # nil

\* An interface of the last product, or a protocol of the last subclass, be it
\* one of the last vendor or class or of an earlier one.
ParseThird(l) ==
    /\ Read(l)
    /\ kind' \in Blocks
    /\ l.level = 2
    /\ HasSecond(kind')
    /\ Enter(second[kind'], l.id)
    /\ UNCHANGED <<status, first, second>>

\* "... line without ... line", "too many levels of nesting"
Refuse(l) ==
    /\ Read(l)
    /\ kind' \in Blocks
    /\ \/ l.level = 1 /\ first[kind'] = nil
       \/ l.level = 2 /\ second[kind'] = nil
       \/ l.level > 2
    /\ status' = "refused"
    /\ UNCHANGED <<first, second, entries>>

\* Lines of other kinds are not looked at.
Ignore(l) ==
    /\ Read(l)
    /\ kind' \notin Blocks
    /\ UNCHANGED <<status, first, second, entries>>

\* The line cannot be split, its id is no number, it is too long or not read.
Malformed ==
    /\ status = "read"
    /\ status' = "malformed"
    /\ UNCHANGED <<file, kind, first, second, entries>>

EndOfFile ==
    /\ status = "read"
    /\ status' = "done"
    /\ UNCHANGED <<file, kind, first, second, entries>>

IdsNext ==
    \/ \E l \in Lines : ParseFirst(l) \/ ParseSecond(l) \/ ParseThird(l)
                            \/ Refuse(l) \/ Ignore(l)
    \/ Malformed
    \/ EndOfFile

IdsSpec == IdsInit /\ [][IdsNext]_idsVars

-----------------------------------------------------------------------------
(* Describe and Classify (usbid/describe.go), in the maps that were parsed: they *)
(* give as many names of the path vendor, product or class, subclass, protocol   *)
(* as they find.                                                                 *)

\* Mutant: the protocol is looked up in the class.
UnderFirst(path, n) == path[IF n > 1 THEN 1 ELSE 0]

Under(path, n) == path[n - 1]

\* What is found in the map of an object.
Below(object, id) ==
    IF <<object, id>> \in DOMAIN entries THEN entries[<<object, id>>] ELSE nil

Lookups(block, ids) ==
    LET path[n \in 0..Len(ids)] ==
            IF n = 0 THEN Root(block) ELSE Below(Under(path, n), ids[n])
    IN  path

Named(block, ids) ==
    LET path == Lookups(block, ids)
        known == {n \in 1..Len(ids) : \A m \in 1..n : path[m] # nil}
    IN  [n \in known |-> path[n]]

Describe(vendor, product) == Named("", <<vendor, product>>)
Classify(class, subclass, protocol) == Named("C", <<class, subclass, protocol>>)

-----------------------------------------------------------------------------
(* What a file means: a line belongs to the last line before it that is less *)
(* indented, within the lines of its kind.                                   *)

KindOf(k) ==
    LET given == {j \in 1..k : file[j].kind # ""} IN
    IF given = {} THEN "" ELSE file[Max(given)].kind

Parsed == {k \in DOMAIN file : KindOf(k) \in Blocks}

Above(k) == {j \in Parsed : j < k /\ KindOf(j) = KindOf(k) /\ file[j].level < file[k].level}

Parent(k) == IF Above(k) = {} THEN Root(KindOf(k)) ELSE Max(Above(k))

\* The lines one level above line k: the last of them is what the code hangs it on.
OneAbove(k) ==
    {j \in Parsed : j < k /\ KindOf(j) = KindOf(k) /\ file[j].level = file[k].level - 1}

Owner(k) == IF file[k].level = 0 THEN Root(KindOf(k)) ELSE Max(OneAbove(k))

\* No line is indented by more than one level more than its parent.
WellNested ==
    \A k \in Parsed :
        /\ file[k].level <= 2
        /\ IF Above(k) = {} THEN file[k].level = 0
                            ELSE file[k].level = file[Max(Above(k))].level + 1

Parents == [k \in Parsed |-> Parent(k)]
Owners == [k \in Parsed |-> Owner(k)]

\* Where line k is when it is put below super[k], and the maps that hold the last
\* line of each such place.
Place(super, k) == <<super[k], Key(KindOf(k), file[k].id)>>

LastOf(super) ==
    [x \in {Place(super, k) : k \in Parsed} |-> Max({k \in Parsed : Place(super, k) = x})]

\* Where the lines for the next id of a path belong when the last n - 1 are named: below
\* the line named last.
Listed(block, ids, names, n) ==
    LET above == IF n = 1 THEN Root(block) ELSE names[n - 1] IN
    {k \in Parsed : Place(Parents, k) = <<above, ids[n]>>}

\* The names follow the indentation from the top down, as far as there are lines.
FollowsFile(block, ids, names) ==
    /\ DOMAIN names \subseteq 1..Len(ids)
    /\ \A n \in 1..Len(ids) :
         n \in DOMAIN names <=> /\ n > 1 => n - 1 \in DOMAIN names
                               /\ Listed(block, ids, names, n) # {}
    /\ \A n \in DOMAIN names : names[n] = Max(Listed(block, ids, names, n))

\* Identifiers that Describe and Classify may be asked for.
Keys(block) == {Key(block, id) : id \in Ids}

-----------------------------------------------------------------------------
(* Properties. *)

\* Every line that is accepted, well nested or not, has a line to hang on: the last
\* of its kind and one level less, however far back, for nothing resets the product
\* at a new vendor.  The maps hold each line there, the last of two with the same id.
HangsByLevel ==
    status # "refused" =>
        /\ \A k \in Parsed : file[k].level <= 2 /\ (file[k].level = 0 \/ OneAbove(k) # {})
        /\ entries = LastOf(Owners)

\* ParseIDs accepts a well nested file, and the maps it returns hold every line
\* below its parent, the last of two with the same id, and nothing else.
MapsMatchFile ==
    status \in {"done", "refused"} /\ WellNested =>
        status = "done" /\ entries = LastOf(Parents)

\* Describe names the vendor and product, Classify the class, subclass and protocol,
\* that the indentation of a well nested file gives for their identifiers: as many as
\* the file has lines for, and never one of another vendor or class.  Of lines with one
\* place the last counts, so of a vendor listed twice the first list of products is
\* lost.  Interface lines, the third level of vendors, are parsed but never named.
NamesMatchFile ==
    status = "done" /\ WellNested =>
        /\ \A vendor, product \in Keys("") :
             FollowsFile("", <<vendor, product>>, Describe(vendor, product))
        /\ \A class, subclass, protocol \in Keys("C") :
             FollowsFile("C", <<class, subclass, protocol>>, Classify(class, subclass, protocol))
=============================================================================
