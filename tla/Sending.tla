--------------------------------- MODULE Sending ---------------------------------
(***************************************************************************)
(* One reply on its way to Telegram.  content.py splits the text into      *)
(* chunks; do_reply of a transport sends them in order and answers that it *)
(* succeeded only when all were accepted; whoever asked retries the whole  *)
(* reply.  A request that fails may still be accepted, at once or late.    *)
(* With Telethon a coroutine on the client's loop sends the chunks, and    *)
(* the worker thread that waits for it may give up before it is cancelled. *)
(***************************************************************************)
EXTENDS Integers, SequencesExt

CONSTANTS
    Texts,          \* bound: the replies, see Word
    MaxChars,       \* TELEGRAM_TEXT_LIMIT
    MaxChunks,      \* max_text_chunks
    MaxTries        \* bound: how often the reply is tried

\* A text is a sequence of words; brk is what separates a word from the one before it.
Word == [len: Nat \ {0}, brk: {"word", "sentence", "paragraph"}]

ASSUME SendingAssumption ==
    /\ {MaxChars, MaxChunks} \subseteq Nat \ {0} /\ MaxTries \in Nat
    /\ Texts \subseteq Seq(Word) \ {<<>>}

VARIABLES
    text,       \* the reply
    transport,  \* "bot_api" or "telethon"
    worker,     \* the caller of do_reply: "idle", "waiting", "ok" or "failed"
    task,       \* the chunk whose request is awaited, 0 for none
    flying,     \* requests Telegram may still accept: try and chunk
    chat,       \* history: the requests Telegram accepted, in order
    tries       \* the tries so far

sendingVars == <<text, transport, worker, task, flying, chat, tries>>
-------------------------------------------------------------------------------
(* Splitting: a unit is a sentence, or a part of one that is too long.      *)

\* The characters of a word from one to another; a unit is a sequence of them, as long as
\* with what stands between them, and sep is what stands before it.
Piece(word, from, to) == [word |-> word, from |-> from, to |-> to]
Unit(pieces, len, sep) == [pieces |-> pieces, len |-> len, sep |-> sep]

\* Both loops: a unit joins the last one as long as they fit together.
Pack(units, u) ==
    IF units # <<>> /\ Last(units).len + u.sep + u.len =< MaxChars
    THEN [units EXCEPT ![Len(units)] = Unit(@.pieces \o u.pieces, @.len + u.sep + u.len, @.sep)]
    ELSE Append(units, u)
PackAll(units, us) ==
    LET upto[n \in 0..Len(us)] == IF n = 0 THEN units ELSE Pack(upto[n - 1], us[n])
    IN  upto[Len(us)]

\* The i-th piece of a cut word.
PieceOf(w, len, i) == Piece(w, (i - 1) * MaxChars + 1, Min({i * MaxChars, len}))
Cuts(w, len, sep, n) ==
    [i \in 1..n |-> LET p == PieceOf(w, len, i)
                    IN  Unit(<<p>>, p.to - p.from + 1, IF i = 1 THEN sep ELSE 1)]

\* A mutant of Cut: what is left of a word is dropped.
CutShort(w, len, sep) == Cuts(w, len, sep, Max({1, len \div MaxChars}))

\* A word longer than a chunk is cut.
Cut(w, len, sep) == Cuts(w, len, sep, (len + MaxChars - 1) \div MaxChars)

Sep(t, i) == CASE i = 1 -> 0 [] i # 1 /\ t[i].brk = "paragraph" -> 2 [] OTHER -> 1

\* The words of a sentence are packed into parts, one if it fits; those into chunks.
EndsSentence(t, w) == w = Len(t) \/ t[w + 1].brk # "word"
Read(t, acc, w) ==
    LET parts == PackAll(acc.parts, Cut(w, t[w].len, Sep(t, w)))
    IN  IF EndsSentence(t, w)
        THEN [chunks |-> PackAll(acc.chunks, parts), parts |-> <<>>]
        ELSE [chunks |-> acc.chunks, parts |-> parts]
Chunks(t) ==
    LET upto[w \in 0..Len(t)] == IF w = 0 THEN [chunks |-> <<>>, parts |-> <<>>]
                                 ELSE Read(t, upto[w - 1], w)
    IN  upto[Len(t)].chunks
-------------------------------------------------------------------------------
(* Sending.                                                                 *)

SendingInit ==
    /\ text \in Texts /\ transport \in {"bot_api", "telethon"}
    /\ worker = "idle" /\ task = 0 /\ flying = {} /\ chat = <<>> /\ tries = 0

Refused == Len(Chunks(text)) > MaxChunks

\* A mutant of Requests: the chunks are sent at once.
RequestsAll(n) == {<<n[1], i>> : i \in n[2]..Len(Chunks(text))}

\* The requests made when a try reaches a chunk.
Requests(n) == {n}

Try ==
    /\ worker \in {"idle", "failed"} /\ task = 0 /\ tries < MaxTries
    /\ tries' = tries + 1
    /\ UNCHANGED <<text, transport, chat>>

\* Larger text fails before any request; so does a call from the loop's own thread.
Refuse ==
    /\ Try /\ (Refused \/ transport = "telethon")
    /\ worker' = "failed" /\ UNCHANGED <<task, flying>>

Begin ==
    /\ Try /\ ~Refused
    /\ worker' = "waiting" /\ task' = 1 /\ flying' = flying \cup Requests(<<tries', 1>>)

Accepted ==
    \E request \in flying :
       /\ chat' = Append(chat, request) /\ flying' = flying \ {request}
       /\ UNCHANGED <<text, transport, worker, task, tries>>

Awaited == <<tries, task>>
Answered == task # 0 /\ Awaited \in ToSet(chat)

AllSentFirst == TRUE    \* a mutant of AllSent: one chunk is the reply
AllSent == task = Len(Chunks(text))

NextChunk ==
    /\ Answered /\ ~AllSent
    /\ task' = task + 1 /\ flying' = flying \cup Requests(<<tries, task + 1>>)
    /\ UNCHANGED <<text, transport, worker, chat, tries>>

\* The last answer: too late for a worker that has given up.
Done ==
    /\ Answered /\ AllSent
    /\ task' = 0 /\ worker' = IF worker = "waiting" THEN "ok" ELSE worker
    /\ UNCHANGED <<text, transport, flying, chat, tries>>

\* The request fails: it was refused, or whether it was accepted is unknown.
RequestFails ==
    /\ task # 0 /\ worker = "waiting"
    /\ worker' = "failed" /\ task' = 0 /\ flying' \in {flying, flying \ {Awaited}}
    /\ UNCHANGED <<text, transport, chat, tries>>

\* Telethon: the worker gives up, and cancels the coroutine some time later, before
\* the one of another try starts.
GivesUp ==
    /\ transport = "telethon" /\ task # 0 /\ worker = "waiting"
    /\ worker' = "failed"
    /\ UNCHANGED <<text, transport, task, flying, chat, tries>>
Cancelled ==
    /\ worker = "failed" /\ task # 0
    /\ task' = 0
    /\ UNCHANGED <<text, transport, worker, flying, chat, tries>>

SendingNext ==
    \/ Refuse \/ Begin \/ Accepted \/ NextChunk \/ Done \/ RequestFails \/ GivesUp \/ Cancelled
SendingSpec == SendingInit /\ [][SendingNext]_sendingVars
-------------------------------------------------------------------------------
(* Properties.                                                              *)

StartsAt(p) == <<p.word, p.from>>
After(t, p) == IF p.to = t[p.word].len THEN <<p.word + 1, 1>> ELSE <<p.word, p.to + 1>>
Chars(pieces) ==
    LET upto[n \in 0..Len(pieces)] ==
          IF n = 0 THEN 0 ELSE upto[n - 1] + (pieces[n].to - pieces[n].from + 1)
    IN  upto[Len(pieces)]

\* "Split text without silently truncating it": the chunks fit, with a separator between
\* any two pieces; they hold every character of every word, from the first to the last,
\* in order; and only a word longer than a chunk is cut.
TextSplit ==
    LET chunks == Chunks(text)
    IN  /\ chunks # <<>> /\ StartsAt(chunks[1].pieces[1]) = <<1, 1>>
        /\ After(text, Last(Last(chunks).pieces)) = <<Len(text) + 1, 1>>
        /\ \A i \in DOMAIN chunks :
             LET c == chunks[i]
             IN  /\ c.len =< MaxChars /\ c.len >= Chars(c.pieces) + Len(c.pieces) - 1
                 /\ i > 1 => StartsAt(c.pieces[1]) = After(text, Last(chunks[i - 1].pieces))
                 /\ \A k \in DOMAIN c.pieces :
                      LET p == c.pieces[k]
                      IN  /\ k > 1 => StartsAt(p) = After(text, c.pieces[k - 1])
                          /\ p.from =< p.to /\ p.to =< text[p.word].len
                          /\ text[p.word].len =< MaxChars => p.from = 1 /\ p.to = text[p.word].len

\* do_reply answers success only after Telegram accepted every chunk of that try, and
\* nothing else of it.
AckMeansAll ==
    worker = "ok" =>
       {m \in ToSet(chat) : m[1] = tries} = {<<tries, i>> : i \in 1..Len(Chunks(text))}

\* Every try, also one that failed and whose requests are accepted late, leaves a
\* prefix of the reply, in order: a chunk once, and behind all those before it.
PrefixOnly ==
    \A i \in DOMAIN chat :
       /\ chat[i][1] \in 1..tries /\ \A j \in 1..i - 1 : chat[j] # chat[i]
       /\ \A c \in 1..chat[i][2] - 1 : \E j \in 1..i - 1 : chat[j] = <<chat[i][1], c>>
===============================================================================
