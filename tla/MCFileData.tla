----------------------------- MODULE MCFileData -----------------------------
(* Small instances of FileData *)
EXTENDS FileData

\* A command line with the default algorithm
Plain(n, patterns) ==
    [algo |-> "zstd", results |-> [a \in {"zstd", "lzma"} |-> "smaller"],
     encrypt |-> FALSE, password |-> "none", files |-> n, patterns |-> patterns]

\* Small files of one and two bytes: four of them reach both limits of a group.
Small == {<<1>>, <<1, 1>>}
\* A small file, one block of zeros, and two blocks that end in a hole
Mixed == {<<1>>, <<0, 0, 0, 0>>, <<1, 0, 0, 0, 0>>}
Empty == {<<>>}

\* Every algorithm, answer of the libraries, and password, with few files
Codecs ==
    {o \in [algo: {"zstd", "lzma"},
            results: [{"zstd", "lzma"} -> {"smaller", "larger", "enomem", "unknown"}],
            encrypt: BOOLEAN, password: {"right", "wrong", "none"},
            files: {1}, patterns: {{<<1>>, <<1, 0, 0, 0, 0>>}}] :
        /\ o.results["zstd"] # "enomem"
        /\ o.algo = "zstd" => o.results["lzma"] = "smaller"}

MCOptions == {Plain(4, Small), Plain(3, Mixed), Plain(2, Mixed \cup Empty)} \cup Codecs
DirOptions == {Plain(2, Mixed \cup Empty)}
=============================================================================
