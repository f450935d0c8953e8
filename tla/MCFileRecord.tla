---------------------------- MODULE MCFileRecord ----------------------------
(***************************************************************************)
(* Small record files: every file of up to three lines out of seven, with  *)
(* separators that follow each other or end the file, blank lines, score   *)
(* lines without draws and lines without a colon among them; and longer    *)
(* files with a header, a name that starts another one, a name that comes  *)
(* twice, a game that comes twice.                                         *)
(***************************************************************************)
EXTENDS FileRecord

mic == <<"m", "i", "c">>
michael == <<"m", "i", "c", "h">>
titi == <<"t">>
plus == <<"+">>
hash == <<"#">>

L(w, fl, k, ns) == [sep |-> FALSE, word |-> w, flags |-> fl, colon |-> ns # <<>>,
                    key |-> k, nums |-> ns]
Sep == [sep |-> TRUE, word |-> plus, flags |-> <<>>, colon |-> FALSE,
        key |-> "plus", nums |-> <<>>]
Player(n, fl, k) == L(n, fl, k, <<>>)
Game(w, k, ns) == L(w, <<TRUE>>, k, ns)

Mic == Player(mic, <<FALSE, TRUE>>, "mic")
Michael == Player(michael, <<TRUE>>, "michael")
Pendu(ns) == Game(<<"P">>, "Pendu", ns)
Morpion(ns) == Game(<<"M">>, "Morpion", ns)
Blank == Player(<<>>, <<>>, "blank")
Header == Player(hash, <<>>, "a long comment line")

Short == {Sep, Mic, Michael, Blank, Header, Pendu(<<1, 2, 1>>), Pendu(<<2, 0>>)}

MCFiles ==
    UNION {[1..n -> Short] : n \in 0..3} \cup
    { <<Header, Sep, Michael, Pendu(<<1, 1, 0>>), Morpion(<<1, 0, 2>>), Sep, Mic, Pendu(<<2, 1, 1>>)>>,
      <<Sep, Michael, Sep, Mic, Morpion(<<0, 1, 1>>), Pendu(<<2, 1>>), Sep, Mic, Pendu(<<1, 1, 1>>)>>,
      <<Sep, Mic, Pendu(<<1, 1, 0>>), Morpion(<<1, 2>>), Pendu(<<0, 2, 2>>), Sep, Michael>>,
      <<Sep, Sep, Mic, Sep, Michael, Pendu(<<1>>), Sep>> }

MCChars == {"m", "i", "c", "h", "t", "+", "#", "P", "M"}
MCWords == {mic, michael, plus, hash, <<>>, <<"P">>, <<"M">>}
MCNames == {mic, michael, titi, plus}
MCGameNames == {"Pendu", "Morpion", "plus", "mic", "michael", "blank", "a long comment line"}
=============================================================================
