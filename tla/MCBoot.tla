------------------------------- MODULE MCBoot -------------------------------
EXTENDS Boot, TLC

MCInterfaces == <<"eth0", "wlan0">>

Foo == <<"foo", Canonical>>
Foo2 == <<"foo", ".", "2", ".nupkg">>
MCPackages == {Foo, Foo2}
MCOrder == <<Foo, New(Foo), Foo2, New(Foo2)>>

\* Sizes are small, the buffers smaller: a library takes two reads.
File(dir, base, so, method, streamed, usize, csize) ==
  [dir |-> dir, base |-> base, so |-> so, method |-> method,
   streamed |-> streamed, usize |-> usize, csize |-> csize, name |-> 9,
   extra |-> 0]

Package(entries, comment) ==
  LET z == [entries |-> entries, comment |-> comment, prefix |-> 0, size |-> 0,
            zip64 |-> FALSE, damage |-> NoDamage]
  IN  [z EXCEPT !.size = WholeSize(z)]

V1 == Package(<<File("meta", "nuspec", FALSE, Deflated, FALSE, 6, 5),
                File("lib/net", "app.dll", FALSE, Deflated, FALSE, 11, 7),
                File("lib/net", "libx.so", TRUE, Stored, TRUE, 11, 11)>>, 0)
V2 == Package(<<File("lib/net", "main.dll", FALSE, Deflated, TRUE, 9, 6),
                File("rc.d", "S50foo", FALSE, Stored, FALSE, 4, 4)>>, 5)
V3 == Package(<<File("lib/net", "app.dll", FALSE, Bzip2ed, FALSE, 9, 6),
                File("lib/net", "app.xml", FALSE, 9, FALSE, 9, 6)>>, 0)

\* The same as V2, packed with Zip64
V64 ==
  LET z == [V2 EXCEPT !.zip64 = TRUE] IN  [z EXCEPT !.size = WholeSize(z)]

\* The search by windows finds what it is for: over comments longer than the
\* search goes back, files with bytes in front and files cut short.
ASSUME SearchFindsLastSignature ==
  \A comment \in 0..70, lead \in {-8, 0, 8}, cut \in 0..30 :
    LET z == [Package(V2.entries, comment) EXCEPT !.prefix = lead,
                                                  !.size = @ + lead - cut]
    IN  SearchCentralDir(z) = LastSignature(z)

\* Any file that is whole can be opened and its first entry found, unless the
\* comment is too long, the end record too near the start, or Zip64's locator
\* is off by what is in front.
ASSUME WholePackagesOpen ==
  \A v \in {V1, V2, V3, V64}, comment \in 0..50, lead \in {0, 8} :
    LET y == [v EXCEPT !.comment = comment, !.prefix = lead]
        z == [y EXCEPT !.size = WholeSize(y)]
    IN  UnzOpen(z).ok <=> /\ comment + EndRecord + (IF z.zip64 THEN Locator64 ELSE 0) <= MaxComment
                          /\ ~ (z.zip64 /\ lead # 0)

\* Cut short in the data, the directory, the end record and its last byte.
MCCuts(z) ==
  LET k == MinOf(2, Len(z.entries))
  IN  {[z EXCEPT !.size = n] : n \in
         {z.prefix + LocalOffset(z, k) + LocalHeader, z.prefix + ItemOffset(z, k),
          EndPos(z), EndPos(z) + EndRecord - 1} \cap Nat}

Damage(part, k, pos, as) == [part |-> part, entry |-> k, at |-> pos, as |-> as]

Damages(z) ==
  {Damage(part, k, 0, "none") : part \in {"central", "local"}, k \in {1, 2}}
  \cup {Damage("end", 0, 0, "none")}
  \cup {Damage("data", 2, 9, as) :
          as \in {"unreadable", "inflate error", "end of stream", "unnoticed"}}
  \cup {Damage("data", 3, 1, "unnoticed")}

Faulty(z) ==
  MCCuts(z)
  \cup {[z EXCEPT !.damage = d] : d \in Damages(z)}
  \cup {[z EXCEPT !.prefix = -8, !.size = @ - 8],  \* the first bytes are lost
        [z EXCEPT !.comment = 50, !.size = @ + 50]}

\* A card with one or two versions of one application, of which one may have
\* come to harm.
MCCards ==
  {[card |-> c, faults |-> 0] :
     c \in {(Foo :> V3), (Foo :> V64),
            (Foo :> [V1 EXCEPT !.prefix = 8, !.size = @ + 8]) @@ (Foo2 :> V2)}}
  \cup {[card |-> (Foo :> z) @@ (Foo2 :> V2), faults |-> 1] : z \in Faulty(V1)}
  \cup {[card |-> (Foo :> V1) @@ (Foo2 :> z), faults |-> 1] :
           z \in {[V2 EXCEPT !.damage = Damage("central", k, 0, "none")] : k \in {1, 2}}}
  \cup {[card |-> (Foo :> V1) @@ (Foo2 :> z), faults |-> 1] :
           z \in {[V64 EXCEPT !.size = EndPos(V64) + n] : n \in {-1, 0}} \cup {ErrorPage}}

MCNewVersions == {V2}
=============================================================================
