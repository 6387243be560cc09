---------------------------- MODULE EventLookups -----------------------------
(***************************************************************************)
(* What an event is enriched from: the context of its hosts, users and     *)
(* addresses, and the two kinds of geo file, a CSV table of address        *)
(* ranges and a MaxMind database.                                          *)
(***************************************************************************)
EXTENDS Integers, Sequences, FiniteSets, SequencesExt, FiniteSetsExt

-----------------------------------------------------------------------------
(***************************************************************************)
(* The context an event is stored with: app/assets (normalize.py, index.py,*)
(* resolve.py), the layered lookup of app/enrich/geo.py, and               *)
(* db._derived_context, which merges their labels.                         *)
(*                                                                         *)
(* A host name is [short, domain, ip]: an address in text, or a name and   *)
(* the domain it may carry.  A user is [kind, full, bare].  An address is  *)
(* [n, mapped]: mapped, it is an IPv4 one in its IPv6 form; or Missing.    *)
(***************************************************************************)
CONSTANTS Missing, Unreadable,
          NetworkOf(_)   \* a CIDR alias's value -> the addresses in it

\* norm_ip and _ip_text: a mapped address is its IPv4 form.
NormIp(a) == a.n

AssetCandidates(host) ==
    IF host = Missing THEN <<>>
    ELSE IF host.ip # Missing THEN <<<<"ip", NormIp(host.ip)>>>>
    ELSE (IF host.domain = "" THEN <<>> ELSE <<<<"fqdn", <<host.short, host.domain>>>>>>)
         \o <<<<"hostname", host.short>>>>

IdentityCandidates(user) ==
    CASE user = Missing -> <<>>
      [] user # Missing /\ user.kind = "mail" -> <<<<"upn", user.full>>, <<"email", user.full>>>>
      [] user # Missing /\ user.kind = "down_level" -> <<<<"sam", user.full>>, <<"sam", user.bare>>>>
      [] OTHER -> <<<<"sam", user.full>>, <<"employee_id", user.full>>>>

-----------------------------------------------------------------------------
(* AssetIndex: an asset is [enabled, level, labels], an identity likewise. *)
\* Aliases kept whether or not their record is enabled.
IndexKeepingAliases(reg) ==
    [assets |-> [a \in {x \in DOMAIN reg.assets : reg.assets[x].enabled} |-> reg.assets[a]],
     people |-> [i \in {x \in DOMAIN reg.people : reg.people[x].enabled} |-> reg.people[i]],
     assetAlias |-> reg.assetAlias, personAlias |-> reg.personAlias]

IndexOf(reg) ==
    LET assets == [a \in {x \in DOMAIN reg.assets : reg.assets[x].enabled} |-> reg.assets[a]]
        people == [i \in {x \in DOMAIN reg.people : reg.people[x].enabled} |-> reg.people[i]]
        Live(alias, records) == [k \in {x \in DOMAIN alias : alias[x] \in DOMAIN records} |-> alias[k]]
    IN  [assets |-> assets, people |-> people,
         assetAlias |-> Live(reg.assetAlias, assets), personAlias |-> Live(reg.personAlias, people)]

IsEmpty(index) == DOMAIN index.assets = {} /\ DOMAIN index.people = {}

\* asset_for_ip: the address itself, then the longest prefix that holds it.
AssetForIp(index, a) ==
    LET nets == {k \in DOMAIN index.assetAlias : k[1] = "cidr" /\ a \in NetworkOf(k[2])}
        Longer(k, l) == NetworkOf(k[2]) \subseteq NetworkOf(l[2])
    IN  IF <<"ip", a>> \in DOMAIN index.assetAlias THEN index.assetAlias[<<"ip", a>>]
        ELSE IF nets = {} THEN Missing
        ELSE index.assetAlias[CHOOSE k \in nets : \A l \in nets : Longer(k, l)]

FirstHit(candidates, Try(_)) ==
    LET hits == SelectSeq(candidates, LAMBDA c : Try(c) # Missing)
    IN  IF hits = <<>> THEN Missing ELSE Try(hits[1])

AssetFromHost(index, host) ==
    LET Try(c) == IF c[1] = "ip" THEN AssetForIp(index, c[2])
                  ELSE IF c \in DOMAIN index.assetAlias THEN index.assetAlias[c] ELSE Missing
    IN  FirstHit(AssetCandidates(host), Try)

AssetFromIp(index, a) == IF a = Missing THEN Missing ELSE AssetForIp(index, NormIp(a))

IdentityOf(index, user) ==
    LET Try(c) == IF c \in DOMAIN index.personAlias THEN index.personAlias[c] ELSE Missing
    IN  FirstHit(IdentityCandidates(user), Try)

Roles == <<"host", "src", "dst">>

\* resolve: host before source before destination; the labels of every side.
Resolve(evt, index) ==
    LET seen == [r \in ToSet(Roles) |->
                   CASE r = "host" -> AssetFromHost(index, evt.host)
                     [] r = "src" -> AssetFromIp(index, evt.src)
                     [] r = "dst" -> AssetFromIp(index, evt.dst)]
        found == SelectSeq(Roles, LAMBDA r : seen[r] # Missing)
        asset == IF found = <<>> THEN Missing ELSE seen[found[1]]
        person == IdentityOf(index, evt.user)
    IN  IF IsEmpty(index) THEN [asset |-> Missing, level |-> Missing, person |-> Missing,
                                priority |-> Missing, labels |-> {}]
        ELSE [asset |-> asset,
              level |-> IF asset \in DOMAIN index.assets THEN index.assets[asset].level ELSE Missing,
              person |-> person,
              priority |-> IF person \in DOMAIN index.people THEN index.people[person].level ELSE Missing,
              labels |-> UNION {{<<r, w>> : w \in index.assets[seen[r]].labels} :
                                   r \in {x \in ToSet(found) : seen[x] \in DOMAIN index.assets}}
                         \cup (IF person \in DOMAIN index.people
                               THEN {<<"identity", w>> : w \in index.people[person].labels} ELSE {})]

\* What two indexes must share for a stored row not to need deriving again.
FingerprintOfAssets(index) == <<index.assets, index.assetAlias, index.personAlias>>
Fingerprint(index) == <<index.assets, index.people, index.assetAlias, index.personAlias>>

-----------------------------------------------------------------------------
(* geo.py: sources in order of precedence; a source is a partial function  *)
(* from addresses to [country, asn], or Unreadable: every lookup raises.     *)
\* The walk given up at the first source that cannot be read.
GeoLookupGivingUp(sources, a) ==
    LET cut == {i \in DOMAIN sources : \A j \in 1..i : sources[j] # Unreadable}
        answers == SelectSeq(SubSeq(sources, 1, Cardinality(cut)), LAMBDA s : a \in DOMAIN s)
        First(field) == LET given == SelectSeq(answers, LAMBDA s : s[a][field] # Missing)
                        IN  IF given = <<>> THEN Missing ELSE given[1][a][field]
    IN  [country |-> First("country"), asn |-> First("asn")]

GeoLookup(sources, a) ==
    LET answers == SelectSeq(sources, LAMBDA s : s # Unreadable /\ a \in DOMAIN s)
        First(field) == LET given == SelectSeq(answers, LAMBDA s : s[a][field] # Missing)
                        IN  IF given = <<>> THEN Missing ELSE given[1][a][field]
    IN  [country |-> First("country"), asn |-> First("asn")]

\* resolve: a scope label for each side even when no database is loaded.
GeoResolve(evt, sources, ScopeOf(_)) ==
    LET sides == {x \in {<<"src", evt.src>>, <<"dst", evt.dst>>} : x[2] # Missing}
        Of(a) == IF a = Missing THEN [country |-> Missing, asn |-> Missing]
                 ELSE GeoLookup(sources, NormIp(a))
    IN  [src |-> Of(evt.src), dst |-> Of(evt.dst),
         labels |-> {<<x[1], ScopeOf(NormIp(x[2]))>> : x \in sides}]

\* _derived_context: both producers' columns and the union of their labels.
DerivedContext(evt, index, sources, ScopeOf(_)) ==
    LET asset == Resolve(evt, index)
        geo == GeoResolve(evt, sources, ScopeOf)
    IN  [asset EXCEPT !.labels = @ \cup geo.labels] @@ [src |-> geo.src, dst |-> geo.dst]

-----------------------------------------------------------------------------
(***************************************************************************)
(* app/enrich/csvdb.py: a table of address ranges loaded from a CSV file,  *)
(* and the search of app/enrich/ranges.py, which is the same one.          *)
(*                                                                         *)
(* A row is [lo, hi, fam, payload]: two addresses of families fam[1] and   *)
(* fam[2], and a country and ASN, or Blank.                                *)
(***************************************************************************)
CONSTANT Blank

Width(r) == r.hi - r.lo

\* _parse_row: a range of two families, or one that ends before it starts, is refused.
RowUsable(r) == r.fam[1] = r.fam[2] /\ r.lo <= r.hi

InOrder(r, s) == r.lo < s.lo \/ (r.lo = s.lo /\ r.hi <= s.hi)

\* The rows of one family the load keeps, by start and end; the sort is stable.
Family(rows, f) ==
    LET kept == SelectSeq(rows, LAMBDA r : RowUsable(r) /\ r.fam[1] = f /\ r.payload # Blank)
        Before(i, j) == InOrder(kept[i], kept[j]) /\ (InOrder(kept[j], kept[i]) => i < j)
        order == SetToSortSeq(DOMAIN kept, Before)
    IN  [i \in DOMAIN order |-> kept[order[i]]]

Skipped(rows) == Cardinality({i \in DOMAIN rows : ~RowUsable(rows[i])})

-----------------------------------------------------------------------------
\* Rows that start at or below the highest end seen so far.
CountOverlaps(rows) ==
    Cardinality({i \in DOMAIN rows : \E j \in 1..(i - 1) : rows[i].lo <= rows[j].hi})

\* The heap's order: the narrowest row, then the earliest.
Narrower(rows, i, j) == Width(rows[i]) < Width(rows[j]) \/ (Width(rows[i]) = Width(rows[j]) /\ i < j)

EmitSegment(out, lo, hi, payload) ==
    IF out # <<>> /\ Last(out).payload = payload /\ Last(out).hi = lo - 1
      THEN [out EXCEPT ![Len(out)].hi = hi]
      ELSE Append(out, [lo |-> lo, hi |-> hi, payload |-> payload])

\* The top used without a look at where it ends.
SweepStale(rows, s, lo, hi) ==
    LET pushed == s.heap \cup {i \in DOMAIN rows : rows[i].lo <= lo /\ i > s.next}
        top == CHOOSE i \in pushed : \A j \in pushed \ {i} : Narrower(rows, i, j)
        next == Cardinality({i \in DOMAIN rows : rows[i].lo <= lo})
    IN  IF pushed = {} THEN [s EXCEPT !.next = next]
        ELSE [heap |-> pushed, next |-> next, out |-> EmitSegment(s.out, lo, hi, rows[top].payload)]

\* One elementary segment: push what has started, pop expired tops, emit the top.
\* Expired rows below the top stay in the heap.
Sweep(rows, s, lo, hi) ==
    LET pushed == s.heap \cup {i \in DOMAIN rows : rows[i].lo <= lo /\ i > s.next}
        live == {i \in pushed : rows[i].hi >= lo}
        top == CHOOSE i \in live : \A j \in live \ {i} : Narrower(rows, i, j)
        next == Cardinality({i \in DOMAIN rows : rows[i].lo <= lo})
    IN  IF live = {} THEN [heap |-> {}, next |-> next, out |-> s.out]
        ELSE [heap |-> {i \in pushed : i = top \/ Narrower(rows, top, i)}, next |-> next,
              out |-> EmitSegment(s.out, lo, hi, rows[top].payload)]

Flatten1(rows) ==
    LET points == SetToSortSeq(UNION {{rows[i].lo, rows[i].hi + 1} : i \in DOMAIN rows}, <)
        Segment(s, k) == Sweep(rows, s, points[k], points[k + 1] - 1)
    IN  FoldLeft(Segment, [heap |-> {}, next |-> 0, out |-> <<>>], [k \in 1..(Len(points) - 1) |-> k]).out

\* The sorted rows serve as they are unless some overlap.
Segments(rows) ==
    IF rows = <<>> THEN <<>> ELSE IF CountOverlaps(rows) > 0 THEN Flatten1(rows) ELSE rows

\* bisect_right and a bound check: the last segment starting at or before x.
Find(segments, x) ==
    LET i == Cardinality({k \in DOMAIN segments : segments[k].lo <= x})
    IN  IF i > 0 /\ x <= segments[i].hi THEN segments[i].payload ELSE Blank

\* loads, then lookup: refused when no row is usable.
TableLookup(rows, f, x) == Find(Segments(Family(rows, f)), x)
TableRefused(rows) == \A f \in {4, 6} : Family(rows, f) = <<>>

-----------------------------------------------------------------------------
\* What a lookup should answer: the narrowest row that covers the address, the
\* first of them in order.
NarrowestRow(rows, f, x) ==
    LET family == Family(rows, f)
        cover == {i \in DOMAIN family : family[i].lo <= x /\ x <= family[i].hi}
    IN  IF cover = {} THEN Blank
        ELSE family[CHOOSE i \in cover : \A j \in cover \ {i} : Narrower(family, i, j)].payload

-----------------------------------------------------------------------------
(***************************************************************************)
(* app/enrich/mmdb.py: a reader of MaxMind databases.                      *)
(*                                                                         *)
(* The search tree is a sequence of nodes <<left, right>>; a record below  *)
(* NodeCount is a node, NodeCount itself means "not in the database" and   *)
(* above it lies the data section.  An IPv4 address is V4Bits bits and an  *)
(* IPv6 one is V6Bits of them.  The data section is a sequence of fields   *)
(* [type, size, to].                                                       *)
(***************************************************************************)
CONSTANTS V4Bits, V6Bits,
          MappedPrefix,   \* the bits before an IPv4 address in its mapped form
          MaxDepth, MaxFields,
          Nibble          \* 16 in the file; half a byte, as a modulus

Refused == [ok |-> FALSE, data |-> 0]
Absent == [ok |-> TRUE, data |-> 0]

-----------------------------------------------------------------------------
(* 28-bit records: three bytes each and a shared one in the middle.        *)
Byte == Nibble * Nibble
High(b) == b \div Nibble
Low(b) == b % Nibble

\* The shared byte's halves the other way round.
Node28Swapped(b, index) ==
    IF index = 1
      THEN ((High(b[4]) * Byte + b[5]) * Byte + b[6]) * Byte + b[7]
      ELSE ((Low(b[4]) * Byte + b[1]) * Byte + b[2]) * Byte + b[3]

Node28(b, index) ==
    IF index = 1
      THEN ((Low(b[4]) * Byte + b[5]) * Byte + b[6]) * Byte + b[7]
      ELSE ((High(b[4]) * Byte + b[1]) * Byte + b[2]) * Byte + b[3]

\* The format's layout of two records, which the reader undoes.
Packed28(left, right) ==
    LET Digit(n, k) == (n \div (Byte^k)) % Byte
    IN  <<Digit(left, 2), Digit(left, 1), Digit(left, 0),
          (left \div (Byte^3)) * Nibble + right \div (Byte^3),
          Digit(right, 2), Digit(right, 1), Digit(right, 0)>>

-----------------------------------------------------------------------------
NodeCount(tree) == Len(tree)
Record(tree, node, bit) == tree[node + 1][bit + 1]

Down(tree, start, bits) ==
    FoldLeft(LAMBDA node, b : IF node < NodeCount(tree) THEN Record(tree, node, b) ELSE node, start, bits)

Zeros(n) == [i \in 1..n |-> 0]

\* One bit short.
Ipv4StartShort(tree, version) ==
    IF version = 4 THEN 0 ELSE Down(tree, 0, Zeros(V6Bits - V4Bits - 1))

\* _find_ipv4_start: as many zero bits as an IPv6 address has before an IPv4 one.
Ipv4Start(tree, version) ==
    IF version = 4 THEN 0 ELSE Down(tree, 0, Zeros(V6Bits - V4Bits))

\* _lookup: a record still inside the tree, or past the data section, is refused.
TreeLookup(tree, version, bits, dataSize) ==
    LET start == IF version = 6 /\ Len(bits) = V4Bits THEN Ipv4Start(tree, version) ELSE 0
        node == Down(tree, start, bits)
    IN  IF node = NodeCount(tree) THEN Absent
        ELSE IF node < NodeCount(tree) \/ node > NodeCount(tree) + dataSize THEN Refused
        ELSE [ok |-> TRUE, data |-> node - NodeCount(tree)]

IsMapped(bits) == Len(bits) = V6Bits /\ SubSeq(bits, 1, V6Bits - V4Bits) = MappedPrefix

\* A mapped address looked up as it stands and no further.
GetRecordOnce(tree, version, bits, dataSize) ==
    IF Len(bits) = V6Bits /\ version = 4 THEN Absent ELSE TreeLookup(tree, version, bits, dataSize)

\* get: a mapped address that is absent is tried again as the IPv4 one it is.
GetRecord(tree, version, bits, dataSize) ==
    LET first == TreeLookup(tree, version, bits, dataSize)
    IN  IF Len(bits) = V6Bits /\ version = 4 THEN Absent
        ELSE IF first = Absent /\ IsMapped(bits)
          THEN TreeLookup(tree, version, SubSeq(bits, V6Bits - V4Bits + 1, V6Bits), dataSize)
        ELSE first

-----------------------------------------------------------------------------
(* _decode: [ok, off, fields]; `fields` counts the fields decoded, which   *)
(* one budget bounds for the whole lookup.                                 *)
Broken(fields) == [ok |-> FALSE, off |-> 0, fields |-> fields]

RECURSIVE Decode(_, _, _, _, _), DecodeItems(_, _, _, _, _)

Decode(data, off, depth, inPointer, spent) ==
    LET f == data[off]
    IN  IF spent + 1 > MaxFields \/ depth > MaxDepth \/ off \notin DOMAIN data THEN Broken(spent + 1)
        ELSE IF f.type = "pointer"
          THEN IF inPointer \/ f.to \notin DOMAIN data THEN Broken(spent + 1)
               ELSE [Decode(data, f.to, depth + 1, TRUE, spent + 1) EXCEPT !.off = off + 1]
        ELSE IF f.type = "array"
          THEN IF f.size > Len(data) - off THEN Broken(spent + 1)
               ELSE DecodeItems(data, off + 1, depth + 1, f.size, spent + 1)
        ELSE [ok |-> TRUE, off |-> off + 1, fields |-> spent + 1]

\* A budget of its own for every item.
ItemsUnshared(data, off, depth, n, spent) ==
    IF n = 0 THEN [ok |-> TRUE, off |-> off, fields |-> spent]
    ELSE LET item == Decode(data, off, depth, FALSE, 0)
         IN  IF ~item.ok THEN item ELSE DecodeItems(data, item.off, depth, n - 1, spent + item.fields)

DecodeItems(data, off, depth, n, spent) ==
    IF n = 0 THEN [ok |-> TRUE, off |-> off, fields |-> spent]
    ELSE LET item == Decode(data, off, depth, FALSE, spent)
         IN  IF ~item.ok THEN item ELSE DecodeItems(data, item.off, depth, n - 1, item.fields)
=============================================================================
