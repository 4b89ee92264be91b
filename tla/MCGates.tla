------------------------------ MODULE MCGates -------------------------------
EXTENDS Gates, TLC

CONSTANTS r1, r2

Managed == Permutations({r1, r2})

Plain == [owner |-> "root", shared |-> FALSE, link |-> FALSE, moved |-> FALSE]
Unmoved == {e \in Entry : ~e.moved}
SoundTree == [base |-> <<Plain, Plain>>, image |-> <<Plain, Plain>>]
Good == [verb |-> "launch", id |-> <<"alnum", "-", "alnum">>, images |-> TRUE,
         sudo |-> "caller", instance |-> "inside", fails |-> "none"]

\* Every id, and every request with a good one, over sound paths; every pair of
\* paths (an image's is resolved, so without symlinks) for good requests.
CasesOf ==
  {[request |-> [Good EXCEPT !.id = id, !.verb = verb], tree |-> SoundTree] :
     id \in UNION {[1..n -> Char] : n \in 0..4}, verb \in {"launch", "cleanup"}}
  \cup {[request |-> [verb |-> verb, id |-> Good.id, images |-> images, sudo |-> sudo,
                      instance |-> instance, fails |-> fails], tree |-> SoundTree] :
     verb \in {"launch", "cleanup"}, images \in BOOLEAN, sudo \in {"none", "caller", "other"},
     instance \in {"absent", "inside", "outside"},
     fails \in {"none", "prepare", "exec", "base", "instance", "remove"}}
  \cup {[request |-> Good, tree |-> [base |-> <<b, c>>, image |-> <<i, j>>]] :
     b, c \in Unmoved, i, j \in {e \in Unmoved : ~e.link}}
  \cup {[request |-> [Good EXCEPT !.verb = "cleanup"],
         tree |-> [SoundTree EXCEPT !.base = <<b, c>>]] : b, c \in Unmoved}

Reasons == {"hash_ok", "hash_mismatch", "analyzer_stub",
            "marker_suspect", "marker_failed", "size_cap"}
ClaimInputs ==
  [framed : BOOLEAN, same : BOOLEAN, outcome : {"clear", "suspect", "failed"},
   reasons : UNION {[1..n -> Reasons] : n \in 0..5}]

Chars == {"a", "/", "\\", "NUL", ".", ":"}
Message(name) ==
  [fits |-> TRUE, shallow |-> TRUE, json |-> TRUE, version |-> TRUE, kind |-> "result",
   task |-> TRUE, filename |-> name, body |-> TRUE]
MessageInputs == {Message(name) : name \in UNION {[1..n -> Chars] : n \in 0..4}}

\* Numbers with and without the x32 bit, right and wrong architecture.
CallInputs ==
  [arch : {62, 3}, nr : 0..450 \cup {n + 1073741824 : n \in {0, 9, 10, 59, 441}},
   prot : {0, 1, 4, 7}]

Requested == {<<"etc", "os-release">>, <<"etc", "lsb-release">>, <<"etc", "shadow">>}
Canonical == {<<>>, <<"usr", "lib", "os-release">>, <<"etc", "lsb-release">>, <<"etc", "shadow">>,
              <<"proc">>, <<"proc", "os-release">>, <<"etc", "cron.d", "lsb-release">>,
              <<"home", ".ssh", "lsb-release">>, <<"etc", "id_rsa">>}
ReadInputs ==
  [flag : {"none", "given"}, bytes : 0..4, absolute : BOOLEAN, path : Requested,
   canonical : Canonical, looked : 0..1, opened : 0..2, type : {"file", "link", "dir"},
   size : 0..4, fails : {"none", "read", "stdout", "receipt"}]

Accounts == {[uid |-> "person", login |-> TRUE, absolute |-> TRUE, home |-> "u"],
             [uid |-> "person", login |-> TRUE, absolute |-> TRUE, home |-> "v"],
             [uid |-> "system", login |-> TRUE, absolute |-> TRUE, home |-> "u"],
             [uid |-> "person", login |-> FALSE, absolute |-> TRUE, home |-> "u"]}
ProbeInputs ==
  {p \in [accounts : SUBSET Accounts, manager : {"v", "w", ""}, guest : SUBSET {"u", "v", "w"},
          listed : SUBSET {"u", "v", "x"}, cut : 0..3, read : BOOLEAN] :
     \A h \in {"u", "v"} : h \in p.listed => h \in p.guest}
=============================================================================
