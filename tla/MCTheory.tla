------------------------------ MODULE MCTheory ------------------------------
\* Theories of a few lines.  The first line says which kind of theory it is:
\* proofs, regions that are not Isar, blocks, lists of facts and axioms, or
\* one structured proof with names of its own.
EXTENDS Tallies

Term(word) == <<"quote", word, "quote">>
Lemma == <<"lemma">> \o Term("word")
Remark == <<"text", "open", "word", "close">>
Heading == <<"section", "open", "word", "close">>
Indented(line) == <<"tab">> \o line

Proofs == {<<>>, Lemma, Append(Lemma, "by"), <<"proof">>, <<"qed">>, Indented(<<"by">>),
           Remark, Heading, <<"text", "open">>, <<"word", "close">>}

Noted == Append(Lemma, "by") \o <<"marginal", "word">>
Notes == {<<>>, Lemma, Noted, <<"(*", "word">>, <<"word", "*)">>, <<"open", "word">>, <<"close">>,
          <<"marginal", "word">>, <<"cancel", "close", "word">>, <<"quote", "word">>}

Nested == {<<>>, Lemma, <<"locale", "word">>, <<"begin">>, <<"end">>, <<"context", "begin">>,
           <<"context", "begin", "locale", "word", "begin">>}

Lists == {<<>>, Lemma, Indented(Lemma), Indented(<<"a", "=", "word">>), <<"and", "a", "=", "word">>,
          Indented(<<"label", "quote", "word", "quote">>), <<"bar", "word">>, Remark,
          Indented(<<"for", "word">>)}

\* The lines of one proof, in an order the blocks allow: the last one reads
\* what the others bind, or closes a block.
Assuming == <<"lemma", "assumes", "a", ":">> \o Term("word") \o <<"shows">> \o Term("word")
Provided == <<"lemma">> \o Term("word") \o <<"if", "a", ":">> \o Term("word")
Have(label) == <<"have", label, ":">> \o Term("word")
Open == Have("a")
Readers == {Have("a") \o <<"using", "a", "by", "word">>,
            Have("a") \o <<"by", "(", "rule", "a", ")">>,
            <<"then">> \o Have("a") \o <<"by", "word">>,
            <<"note", "b", "=", "a", "[", "OF", "that", "]">>,
            <<"hence">> \o Term("?p") \o <<"by", "(", "word", ":", "x_def", ")">>,
            <<"next">>}
Binders == {<<"obtain", "x", "where", "a", ":">> \o Term("x") \o <<"by", "word">>,
            <<"define", "x", "where">> \o Term("x"),
            <<"let", "?p", "=">> \o Term("x"),
            <<"from", "a">>, <<"{">>}
Goals == {Open, <<"from", "a", "show">> \o Term("word")}
Scripted == {<<"subgoal">>, <<"subgoal", "by", "word">>, <<"proof">>, <<"qed">>,
             <<"apply", "word">>, <<"done">>, <<"by", "assms">>}

OpenBlocks(lines) ==
    FoldLeft(LAMBDA s, l : IF l[1] \in {"proof", "{"} THEN Append(s, l[1])
                           ELSE IF l[1] \in {"qed", "}"} /\ s # <<>> THEN Front(s) ELSE s, <<>>, lines)
Isar(lines) ==
    LET open == OpenBlocks(Tail(lines))
        last == Last(lines)
    IN  IF Len(lines) = 1 THEN {<<"proof">>}
        ELSE IF open = <<>> \/ Len(lines) = 6 THEN {}
        ELSE IF last = <<"from", "a">> THEN {Open}
        ELSE IF last \in Goals THEN {<<"proof">>, <<"by", "word">>, <<"using", "b">>}
        ELSE IF last = <<"using", "b">> THEN {<<"proof">>, <<"by", "word">>}
        ELSE Readers \cup {IF Last(open) = "{" THEN <<"}">> ELSE <<"qed">>}
                     \cup IF Len(lines) = 5 THEN {} ELSE Binders \cup Goals

\* Blocks and hardly anything in them, for more lines.
Framed == <<"lemma">> \o Term("word") \o <<"for", "x">>
Blocked(lines) ==
    LET open == OpenBlocks(Tail(lines))
        goal == Last(lines) \in Goals
    IN  IF Len(lines) = 1 \/ goal THEN {<<"proof">>}
        ELSE IF open = <<>> THEN {}
        ELSE {Have("b") \o <<"by", "word">>, IF Last(open) = "{" THEN <<"}">> ELSE <<"qed">>}
             \cup IF Len(lines) = MaxLines - 1 THEN {} ELSE {Open, <<"{">>}

Family == [line \in {Lemma, Append(Lemma, "by"), Remark} |-> Proofs]
          @@ [line \in {<<"(*", "lemma">>, <<"lemma", "open", "word">>, <<"ML">>} |-> Notes]
          @@ [line \in {<<"locale", "word">>, <<"context", "begin">>} |-> Nested]
          @@ [line \in {<<"axiomatization", "where", "label", "quote", "word", "quote">>,
                        <<"lemmas", "a", "=", "word">>, <<"fun", "word">>} |-> Lists]

MCFollows(lines) ==
    IF lines = <<>> THEN DOMAIN Family \cup {Assuming, Provided, Framed}
    ELSE IF lines[1] \in DOMAIN Family THEN IF Len(lines) < 5 THEN Family[lines[1]] ELSE {}
    ELSE IF lines[1] = Assuming
         THEN IF Len(lines) = 1 THEN {<<"apply", "word">>} ELSE IF Len(lines) < 6 THEN Scripted ELSE {}
    ELSE IF lines[1] = Framed THEN Blocked(lines)
    ELSE Isar(lines)
=============================================================================
