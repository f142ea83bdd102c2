-------------------------------- MODULE Mailbox --------------------------------
(***************************************************************************)
(* The messages to the VideoCore (VCmailbox.c, fb.c): the words of mbox    *)
(* as each caller writes them, what the VideoCore makes of them, and which *)
(* words the caller reads.  Sizes are in bytes, indices start at 0 as in   *)
(* the code.  Answers are pairs of a tag and the number of a value.        *)
(***************************************************************************)
EXTENDS Integers, Sequences, SequencesExt

Request == 0
TagLast == 0

\* The tags of VCmailbox.h, and those that fb_init() writes as numbers.
GETVCMEM     == 65542
GETARMMEM    == 65541
GETCLOCK     == 196610
SETCLOCKRATE == 229378
GETMAXCLOCKRATE == 196612
SETPHYSWH == 294915
SETVIRTWH == 294916
SETDEPTH  == 294917
SETORDER  == 294918
SETOFFSET == 294921
GETFB     == 262145
GETPITCH  == 262152

TagNames == {GETVCMEM, GETARMMEM, GETCLOCK, SETCLOCKRATE, GETMAXCLOCKRATE, SETPHYSWH,
             SETVIRTWH, SETDEPTH, SETORDER, SETOFFSET, GETFB, GETPITCH}

MboxWords == 36       \* words of mbox

\* A message: its words and, per word that is read, the answer meant by it.
Message(words, reads) == [words |-> words, reads |-> reads]

vc_mem_start_address ==
    Message(<<8 * 4, Request, GETVCMEM, 8, 0, 0, 0, TagLast>>,
            {<<5, GETVCMEM, 1>>})

CoreClockAt_Bug == 10

CoreClockAt == 11

InfoBytes == 23 * 4

print_info_mem_freq ==
    Message(<<InfoBytes, Request, GETCLOCK, 8, 0, 3, 0, GETCLOCK, 8, 0, 4, 0,
              GETVCMEM, 8, 0, 0, 0, GETARMMEM, 8, 0, 0, 0, TagLast>>,
            {<<6, GETCLOCK, 2>>, <<CoreClockAt, GETCLOCK, 2>>, <<15, GETVCMEM, 1>>,
             <<16, GETVCMEM, 2>>, <<20, GETARMMEM, 1>>, <<21, GETARMMEM, 2>>})

set_max_freq_mbox ==
    Message(<<9 * 4, Request, SETCLOCKRATE, 12, 0, 3, 1400000000, 0, TagLast>>,
            {<<6, SETCLOCKRATE, 2>>})

maxfreq ==
    Message(<<8 * 4, Request, GETMAXCLOCKRATE, 8, 0, 3, 0, TagLast>>,
            {<<6, GETMAXCLOCKRATE, 2>>})

\* The size of the value of GETPITCH is 0: 4 stands in the word behind it.
fb_init ==
    Message(<<35 * 4, Request, SETPHYSWH, 8, 0, 1024, 768, SETVIRTWH, 8, 0, 1024, 768,
              SETOFFSET, 8, 0, 0, 0, SETDEPTH, 4, 0, 32, SETORDER, 4, 0, 1,
              GETFB, 8, 0, 4096, 0, GETPITCH, 0, 4, 0, TagLast>>,
            {<<20, SETDEPTH, 1>>, <<28, GETFB, 1>>, <<5, SETPHYSWH, 1>>,
             <<6, SETPHYSWH, 2>>, <<33, GETPITCH, 1>>, <<24, SETORDER, 1>>})

Messages == {vc_mem_start_address, print_info_mem_freq, set_max_freq_mbox, maxfreq, fb_init}

\* The word at index i.
WordAt(words, i) == words[i + 1]

\* The VideoCore goes from tag to tag by the sizes of their values and answers in
\* the place of the values; it stops at the first 0.
Tags(words) ==
    LET Step(t, k) ==
          IF t.at >= Len(words) \/ WordAt(words, t.at) = TagLast THEN t
          ELSE [at |-> t.at + 3 + WordAt(words, t.at + 1) \div 4, found |-> t.found \cup {t.at}]
    IN  FoldLeft(Step, [at |-> 2, found |-> {}], [k \in 1 .. Len(words) |-> k])

Answered(words) ==
    UNION {{<<t + 2 + k, WordAt(words, t), k>> : k \in 1 .. WordAt(words, t + 1) \div 4}
             : t \in Tags(words).found}

--------------------------------------------------------------------------------
(* Properties of a message. *)

\* The message fits the buffer, and its first word is its size.
SizeRight(m) == Len(m.words) <= MboxWords /\ WordAt(m.words, 0) = 4 * Len(m.words)

\* The VideoCore finds the end of the tags where the caller wrote it.
TagsTile(m) == Tags(m.words).at = Len(m.words) - 1

\* Every word a caller reads for one of these tags is an answer of that tag.
ReadsAnswers(m, tags) == {r \in m.reads : r[2] \in tags} \subseteq Answered(m.words)
================================================================================
