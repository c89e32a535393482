----------------------------- MODULE ZipArchive -----------------------------
(***************************************************************************)
(* The ZIP files this program writes (write_stored_zip in                  *)
(* src/zip_store_writer.cpp) and opens (PackageReader::open in             *)
(* src/package_reader.cpp).                                                *)
(*                                                                         *)
(* A file is a sequence of units: one for each header record with its name *)
(* and one for each byte around and between them, so an offset is an       *)
(* index.  A deflated stream is one unit that holds what it inflates to.   *)
(***************************************************************************)
EXTENDS EntryChunks

CONSTANTS
    MaxField,       \* the largest value of a 16-bit or 32-bit ZIP field
    MaxComment,     \* max_zip_comment_size
    DirectoryNames, \* entry names that end in "/"
    InvalidNames,   \* names validate_zip_entry_name refuses
    ContentTypes    \* "[Content_Types].xml"

ASSUME FieldsAssumption == MaxField \in Nat /\ MaxComment \in Nat

Byte(x) == [is |-> "byte", of |-> x]
Pad == [is |-> "pad"]
Deflated(content) == [is |-> "deflated", of |-> content]

Local(name, method, flags, crc, csize, usize, extra) ==
    [is |-> "local", name |-> name, method |-> method, flags |-> flags,
     crc |-> crc, csize |-> csize, usize |-> usize, extra |-> extra]

Central(name, method, flags, crc, csize, usize, disk, at) ==
    [is |-> "central", name |-> name, method |-> method, flags |-> flags,
     crc |-> crc, csize |-> csize, usize |-> usize, disk |-> disk, at |-> at]

Eocd(disk, count, size, at, comment) ==
    [is |-> "eocd", disk |-> disk, count |-> count, size |-> size, at |-> at,
     comment |-> comment]

(***************************************************************************)
(* Writing: entries [name, data], in order                                 *)
(***************************************************************************)
EntryUnits(e) ==
    <<Local(e.name, "stored", {}, e.data, Len(e.data), Len(e.data), 0)>> \o e.data

LocalOffset(entries, i) ==
    Len(FlattenSeq([j \in 1 .. i - 1 |-> EntryUnits(entries[j])]))

DataEnd(entries) == LocalOffset(entries, Len(entries) + 1)

CentralRecords(entries) ==
    [i \in DOMAIN entries |->
        Central(entries[i].name, "stored", {}, entries[i].data, Len(entries[i].data),
                Len(entries[i].data), 0, LocalOffset(entries, i))]

WriterRefuses(entries) ==
    \/ entries = << >>
    \/ Len(entries) > MaxField
    \/ DataEnd(entries) > MaxField
    \/ \E i \in DOMAIN entries :
          \/ entries[i].name \in DirectoryNames \cup InvalidNames
          \/ \E j \in 1 .. i - 1 : entries[j].name = entries[i].name
          \/ Len(entries[i].data) > MaxField

WrittenArchive(entries) ==
    FlattenSeq([i \in DOMAIN entries |-> EntryUnits(entries[i])])
      \o CentralRecords(entries)
      \o <<Eocd(0, Len(entries), Len(entries), DataEnd(entries), 0)>>

(***************************************************************************)
(* Opening                                                                 *)
(***************************************************************************)
\* The last record whose comment ends with the file, among those a comment of
\* the greatest size leaves in reach.
EocdOffsets(file) ==
    {o \in Larger(0, Len(file) - 1 - MaxComment) .. Len(file) - 1 :
        /\ file[o + 1].is = "eocd"
        /\ o + 1 + file[o + 1].comment = Len(file)}

EocdOffset(file) == CHOOSE o \in EocdOffsets(file) : \A p \in EocdOffsets(file) : p <= o

EocdRefused(o, e) ==
    \/ e.disk # 0
    \/ MaxField \in {e.count, e.size, e.at}
    \/ e.at + e.size # o

\* A local header that uses a data descriptor has no sizes and CRC-32 of its
\* own to compare.
LocalRefused(file, r) ==
    \/ r.at >= Len(file)
    \/ LET h == file[r.at + 1]
       IN  \/ h.is # "local"
           \/ "encrypted" \in h.flags
           \/ h.method # r.method
           \/ h.name # r.name
           \/ /\ "descriptor" \notin h.flags
              /\ <<h.crc, h.csize, h.usize>> # <<r.crc, r.csize, r.usize>>
           \/ r.at + 1 + h.extra + r.csize > Len(file)

DirectoryRefused(file, r) ==
    \/ r.name \in InvalidNames
    \/ r.flags # {}
    \/ r.method # "stored"
    \/ <<r.csize, r.usize, r.crc>> # <<0, 0, << >>>>
    \/ r.disk # 0
    \/ r.at = MaxField
    \/ LocalRefused(file, r)

EntryRefused(file, r) ==
    \/ "encrypted" \in r.flags
    \/ r.method \notin {"stored", "deflated"}
    \/ r.method = "stored" /\ r.csize # r.usize
    \/ r.disk # 0
    \/ MaxField \in {r.csize, r.usize, r.at}
    \/ r.name \in InvalidNames
    \/ LocalRefused(file, r)

Records(file) ==
    LET e == file[EocdOffset(file) + 1] IN SubSeq(file, e.at + 1, e.at + e.size)

RecordsRefused(file, records) ==
    \E i \in DOMAIN records :
        LET r == records[i]
        IN  \/ r.is # "central"
            \/ IF r.name \in DirectoryNames THEN DirectoryRefused(file, r)
               ELSE \/ EntryRefused(file, r)
                    \/ \E j \in 1 .. i - 1 :
                          records[j].is = "central" /\ records[j].name = r.name

PackageRefused(file) ==
    \/ file = Gone
    \/ file = << >>
    \/ EocdOffsets(file) = {}
    \/ LET o == EocdOffset(file)
       IN  \/ EocdRefused(o, file[o + 1])
           \/ file[o + 1].count # file[o + 1].size
           \/ RecordsRefused(file, Records(file))

\* The entries a directory lists, at the offsets of their data.
EntriesOf(file) ==
    {[name |-> r.name, method |-> r.method, crc |-> r.crc, csize |-> r.csize,
      usize |-> r.usize, at |-> r.at + 1 + file[r.at + 1].extra] :
        r \in {q \in Range(Records(file)) : q.name \notin DirectoryNames}}

Named(entries, name) == {e \in entries : e.name = name}

\* minizip-ng reads the directory of the file again and looks for the name.
Located(file, name) ==
    IF PackageRefused(file) THEN {} ELSE Named(EntriesOf(file), name)

\* What a deflated entry's stream inflates to; nothing if it is no stream.
Inflated(file, e) ==
    IF /\ file # Gone /\ e.at < Len(file) /\ file[e.at + 1].is = "deflated"
    THEN {file[e.at + 1].of}
    ELSE {}

\* What is read in one go, while the package is opened.
EntryBytes(file, e) ==
    IF e.method = "stored"
    THEN {d \in {Bytes(file, e.at, e.csize)} : d = e.crc}
    ELSE {d \in Inflated(file, e) : d = e.crc /\ Len(d) = e.usize}

\* PackageReader::open reads the content types before it returns.
OpenRefused(file) ==
    \/ PackageRefused(file)
    \/ Named(EntriesOf(file), ContentTypes) = {}
    \/ \E e \in Named(EntriesOf(file), ContentTypes) : EntryBytes(file, e) = {}
=============================================================================
