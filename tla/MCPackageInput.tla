--------------------------- MODULE MCPackageInput ---------------------------
(***************************************************************************)
(* Packages of two entries for TLC to check PackageInput on, with every    *)
(* way to damage one unit of them.                                         *)
(***************************************************************************)
EXTENDS PackageInput

x == Byte("x")
y == Byte("y")
z == Byte("z")
T == Byte("types")

Entry(name, data) == [name |-> name, data |-> data]
Written(entries) ==
    [n \in {entries[i].name : i \in DOMAIN entries} |->
        (CHOOSE e \in Range(entries) : e.name = n).data]

Plain == <<Entry("types", <<T>>), Entry("part", <<x, y>>)>>

One == <<Entry("types", <<T, x>>)>>

\* A part that is a package itself.
Embedded == <<Entry("types", <<T>>),
              Entry("part", WrittenArchive(<<Entry("types", <<T>>)>>))>>

\* As other programs write: a directory, data descriptors, DEFLATE, an extra
\* field, a comment.
Foreign ==
    <<Local("dir/", "stored", {}, << >>, 0, 0, 0),
      Local("types", "stored", {"descriptor"}, << >>, 0, 0, 0), T, Pad,
      Local("part", "deflated", {"descriptor"}, << >>, 0, 0, 1), Pad,
      Deflated(<<x, y>>),
      Central("dir/", "stored", {}, << >>, 0, 0, 0, 0),
      Central("types", "stored", {"descriptor"}, <<T>>, 1, 1, 0, 1),
      Central("part", "deflated", {"descriptor"}, <<x, y>>, 1, 2, 0, 4),
      Eocd(0, 3, 3, 7, 1), Byte("comment")>>

\* The archives below are packages that write_package accepts.
ASSUME WritersPackages == \A entries \in {One, Plain, Embedded} : ~ WriterRefuses(entries)

Other(name) == IF name = "part" THEN "types" ELSE "part"

\* A record with one field gone wrong, a byte or a stream with other content.
Damaged(u) ==
    CASE u.is = "byte" -> {z}
      [] u.is = "pad" -> {z}
      [] u.is = "deflated" -> {Deflated(<<x, z>>), Deflated(<<x, y, z>>), Deflated(<<x>>), z}
      [] u.is = "local" ->
           {[u EXCEPT !.name = Other(u.name)], [u EXCEPT !.extra = @ + 1],
            [u EXCEPT !.flags = {"descriptor"}], [u EXCEPT !.flags = {"encrypted"}],
            [u EXCEPT !.crc = <<z>>], [u EXCEPT !.csize = @ + 1], z}
      [] u.is = "central" ->
           {[u EXCEPT !.name = Other(u.name)], [u EXCEPT !.name = "../part"],
            [u EXCEPT !.name = "dir/"], [u EXCEPT !.at = @ + 1], [u EXCEPT !.at = 0],
            [u EXCEPT !.csize = @ + 1], [u EXCEPT !.csize = @ + 1, !.usize = @ + 1],
            [u EXCEPT !.usize = @ + 1], [u EXCEPT !.crc = <<z>>], [u EXCEPT !.disk = 1],
            [u EXCEPT !.method = IF @ = "stored" THEN "deflated" ELSE "stored"], z}
      [] OTHER ->
           {[u EXCEPT !.disk = 1], [u EXCEPT !.count = @ - 1], [u EXCEPT !.count = @ + 1],
            [u EXCEPT !.size = @ - 1], [u EXCEPT !.at = @ + 1], [u EXCEPT !.at = MaxField],
            [u EXCEPT !.comment = @ + 1], z}

Without(file, i) == SubSeq(file, 1, i - 1) \o SubSeq(file, i + 1, Len(file))

Damages(file) ==
    {file, Gone}
    \cup {SubSeq(file, 1, n) : n \in 0 .. Len(file)}
    \cup {Without(file, i) : i \in DOMAIN file}
    \cup UNION {{[file EXCEPT ![i] = u] : u \in Damaged(file[i])} : i \in DOMAIN file}
    \cup {file \o <<z>>, file \o <<Eocd(0, 0, 0, Len(file), 0)>>}

Scene(packages, first, whole, written, staged, inputs, patches, most) ==
    [packages |-> packages, first |-> first, whole |-> whole, written |-> written,
     staged |-> staged, inputs |-> inputs, patches |-> patches,
     calls |-> most]

\* Any damage before the package is opened, and any after.
Untrusted(file, written) ==
    {Scene({}, f, f = file, written, {<<x>>}, {}, {}, 2) : f \in Damages(file)}
    \cup {Scene(Damages(file), file, TRUE, written, {<<x>>}, {}, {}, 2)}

Rewrite(from, to, payload) == [from |-> from, to |-> to, payload |-> payload]

\* Memory next to a whole file next to a range of a file; cuts inside and at
\* the borders of chunks.
Staging ==
    Scene({WrittenArchive(One), [WrittenArchive(One) EXCEPT ![3] = z]},
          WrittenArchive(One), TRUE, Written(One),
          {<<x, y>>, <<x, z>>, <<x>>, <<x, y, z>>, Gone},
          {<<Memory(<<z>>), WholeFile("staged"), FileRange("staged", 1, 1)>>,
           <<WholeFile("staged"), Memory(<<z, x>>), Memory(<<y>>)>>,
           <<[FileRange("staged", 0, 2) EXCEPT !.crc = <<x, y>>]>>},
          {<<Rewrite(1, 2, <<z, z>>)>>, <<Rewrite(3, 4, <<y>>)>>, <<Rewrite(0, 1, << >>), Rewrite(2, 3, <<y>>)>>,
           <<Rewrite(0, 0, <<z>>), Rewrite(1, 1, <<y>>)>>, <<Rewrite(1, 4, << >>)>>,
           <<Rewrite(2, 1, <<z>>)>>, <<Rewrite(1, 2, <<z>>), Rewrite(1, 2, <<z>>)>>}, 4)

MCScenes ==
    Untrusted(WrittenArchive(Plain), Written(Plain))
    \cup Untrusted(WrittenArchive(Embedded), Written(Embedded))
    \cup Untrusted(Foreign, Written(Plain))
    \cup {Staging}

Directories == {"dir/"}
Invalid == {"../part"}
ReportedFaults == {"write", "rename", "restore"}
=============================================================================
