------------------------------ MODULE TagMaps ------------------------------
(***************************************************************************)
(* TagKeys and TagMaps as the keys of the delta's rows and of a view's:    *)
(* TagKeyRegistry, TagMap, the lookup in a hash map by a TagMap, and the   *)
(* tag values that a view keeps of one.                                    *)
(***************************************************************************)
EXTENDS Integers, Sequences, FiniteSets, SequencesExt, FiniteSetsExt

CONSTANTS
  KeyNames,   \* names of tag keys
  TagValues,  \* numbers, in the order of the strings
  MapSlots,   \* the program's TagMap objects
  MaxTags, MaxOps \* bounds

VARIABLES
  registered_tag_keys_, \* TagKeyRegistry: the names, by id (from 1); id_map_ is its inverse
  maps,   \* the TagMaps, each with the set of pairs it was made of (history)
  rows,   \* an unordered_map whose keys are TagMaps: where each was put, and of what
  lookups \* history: the number of TagMaps made, and of lookups

tagMapVars == <<registered_tag_keys_, maps, rows, lookups>>

\* TagKeyRegistry::Register: the keys with this name registered, and its id.
Registered(keys, name) == IF name \in Range(keys) THEN keys ELSE Append(keys, name)
IdOf(keys, name) == CHOOSE id \in DOMAIN keys : keys[id] = name

\* TagKeyRegistry::TagKeyName
TagKeyName(id) == registered_tag_keys_[id]

\* The order of pairs of a TagKey and a value; a tag is <<id, value>>.
Before(a, b) == a[1] < b[1] \/ (a[1] = b[1] /\ a[2] <= b[2])

\* absl::Hash of the vector: some function of it, that others may share.
HashOf(tags) == IF tags = <<>> THEN 0 ELSE 1 + ((Len(tags) + Last(tags)[2]) % 2)

\* Mutant: the tags stay in the order they were given in.
InitializeUnsorted(tags) == [tags_ |-> tags, hash_ |-> HashOf(tags)]

\* TagMap::Initialize.  A debug build refuses two tags with one key.
Initialize(tags) ==
  LET sorted == SortSeq(tags, LAMBDA a, b : Before(a, b) /\ a # b) IN
  [tags_ |-> sorted, hash_ |-> HashOf(sorted)]

SameMap(a, b) == a.tags_ = b.tags_ \* TagMap::operator==

\* TagMap::Hash, with operator==, as an unordered_map uses them.
FoundAs(a, b) == a.hash_ = b.hash_ /\ SameMap(a, b)

----------------------------------------------------------------------------
Op == lookups < MaxOps /\ lookups' = lookups + 1

\* The keys of a list of tags, given by name, are registered one after the other.
RegisterAll(named) == FoldLeft(LAMBDA keys, tag : Registered(keys, tag[1]),
                               registered_tag_keys_, named)

\* Lists of named tags in which no key is twice.
TagLists ==
  UNION {{s \in [1 .. n -> KeyNames \X TagValues] :
            \A i, j \in 1 .. n : i # j => s[i][1] # s[j][1]} : n \in 0 .. MaxTags}

\* Either constructor of TagMap.
MakeTagMap(m, named) ==
  LET keys == RegisterAll(named) IN
  /\ Op
  /\ registered_tag_keys_' = keys
  /\ maps' = [maps EXCEPT ![m] =
       [map |-> Initialize([i \in DOMAIN named |-> <<IdOf(keys, named[i][1]), named[i][2]>>]),
        made_of |-> Range(named)]]
  /\ UNCHANGED rows

\* A copy has the tags and the hash.
CopyTagMap(m, from) ==
  /\ Op /\ maps' = [maps EXCEPT ![m] = maps[from]]
  /\ UNCHANGED <<registered_tag_keys_, rows>>

\* Delta::Record under a TagMap: the row found for it, or a new one.
RecordUnder(m) ==
  /\ Op
  /\ rows' = IF \E row \in rows : FoundAs(row.map, maps[m].map) THEN rows
             ELSE rows \cup {maps[m]}
  /\ UNCHANGED <<registered_tag_keys_, maps>>

Absent == -1 \* the empty string

\* MergeMeasureData: for each column the value of the first tag with its key, if any.
TagValuesFor(columns, map) ==
  [i \in DOMAIN columns |->
     LET found == {j \in DOMAIN map.tags_ : map.tags_[j][1] = columns[i]} IN
     IF found = {} THEN Absent ELSE map.tags_[Min(found)][2]]

Empty == [map |-> Initialize(<<>>), made_of |-> {}]

TagMapInit ==
  /\ registered_tag_keys_ = <<>>
  /\ maps = [m \in MapSlots |-> Empty] /\ rows = {} /\ lookups = 0

TagMapNext ==
  \E m \in MapSlots :
    \/ \E named \in TagLists : MakeTagMap(m, named)
    \/ \E from \in MapSlots \ {m} : CopyTagMap(m, from)
    \/ RecordUnder(m)

----------------------------------------------------------------------------
\* Equal names are one key.  TagMaps of the same tags, in whatever order they were
\* given and whenever their keys were registered, are equal and find each other's row,
\* and no others do; and a view with any columns sees the values that were given.
TagMapsAgree ==
  /\ \A i, j \in DOMAIN registered_tag_keys_ : TagKeyName(i) = TagKeyName(j) => i = j
  /\ \A m, n \in MapSlots :
       /\ maps[m].made_of = maps[n].made_of <=> SameMap(maps[m].map, maps[n].map)
       /\ SameMap(maps[m].map, maps[n].map) => FoundAs(maps[m].map, maps[n].map)
  /\ \A r, s \in rows : r.made_of = s.made_of => r = s
  /\ \A m \in MapSlots :
       LET map == maps[m].map IN
       /\ {<<TagKeyName(map.tags_[i][1]), map.tags_[i][2]>> : i \in DOMAIN map.tags_}
            = maps[m].made_of
       /\ \A columns \in SeqOf(DOMAIN registered_tag_keys_, 2) :
            LET shown == TagValuesFor(columns, map) IN
            \A i \in DOMAIN columns :
              LET given == {tag \in maps[m].made_of : tag[1] = TagKeyName(columns[i])} IN
              IF given = {} THEN shown[i] = Absent
              ELSE <<TagKeyName(columns[i]), shown[i]>> \in given
=============================================================================
