------------------------------ MODULE MCKeeping -------------------------------
(* What the assistant keeps for its owner between conversations, what it     *)
(* learns, and what it comes to the owner with, side by side in one check:   *)
(* the task board, the preparation of events, the document vault, the web    *)
(* index, lessons, experiences, proposals to improve the code, the review of *)
(* facts, and the mail steward.  They share no state here, so a behaviour is *)
(* one of them: side says which, and the others stay in their initial state. *)
(* A mail of the two mailbox entries is of the fast lane or not, by the side.*)
EXTENDS TaskBoard, FiniteSets

CONSTANTS Events, Title, Start, Briefings, Horizon, KeepOpen, KeepAnswered,
          MaxAhead, Ttl, MaxTime,
          Paths, Texts, Runs, MaxEdits,
          Items, Seed, PerCycle, MaxVersion, MaxTrouble,
          Signatures, MaxProposals,
          Facts, Commands, ReviewCount, MaxStale, Distrust, MaxPending,
          Copies, Mails, MailOf, MaxTold, MaxCrashes,
          Slugs, Often, MaxCands, MaxNew, MaxLog, MaxReplays,
          Shapes, Commits, Window, MaxSignals, Near

VARIABLES side,
          now, ctx, offers, jobs, briefing, shown, replies, asked, told,
          file, row, chunks, run, edits, disturbed,
          published, version, etag, docs, vectors, step, todo, page, pending,
          trouble, left,
          history, open, rows, drafting, last, denied, orphans,
          facts, review, beat, screen, cmd, answered, crossed,
          listed, digest, poll, report, tellings, mailLost, flagged, shared, crashes,
          log, mark, lessons, cycle, seen, replays, silenced,
          signals, reached, experiences, harvest, credit, deployed, again, passed

prepVars == <<now, ctx, offers, jobs, briefing, shown, replies, asked, told>>
vaultVars == <<file, row, chunks, run, edits, disturbed>>
indexVars == <<published, version, etag, docs, vectors, step, todo, page, pending,
               trouble, left>>
proposalVars == <<history, open, rows, drafting, last, denied, orphans>>
reviewVars == <<facts, review, beat, screen, cmd, answered, crossed>>
mailVars == <<listed, digest, poll, report, tellings, mailLost, flagged, shared, crashes>>
lessonVars == <<log, mark, lessons, cycle, seen, replays, silenced>>
experienceVars == <<signals, reached, experiences, harvest, credit, deployed, again, passed>>
all == <<side, boardVars, prepVars, vaultVars, indexVars, proposalVars, reviewVars,
         mailVars, lessonVars, experienceVars>>

(* Two events of one series; two entries of one mail. *)
MCTitle == [e \in Events |-> "series"]
MCStart == [e \in Events |-> IF e = "a" THEN 1 ELSE 3]
MCMailOf == [x \in Copies |-> CHOOSE m \in Mails : TRUE]

ASSUME KeysAssumption == None \notin Signatures \cup Mails

(* An event has a time, and what is remembered of it is kept some time after.*)
ASSUME PrepAssumption ==
    /\ Start \in [Events -> Nat] /\ {KeepOpen, KeepAnswered} \subseteq Nat
    /\ MaxTime \in Nat /\ None \notin Nat

(* A feed has finitely many items; no document looks like none. *)
ASSUME IndexAssumption ==
    /\ Items \subseteq Nat /\ IsFiniteSet(Items) /\ PerCycle \in Nat
    /\ None \notin [hash : Nat, status : {"pending", "embedded"}]

(* A batch of facts to review fits in the file, which has room for one. *)
ASSUME ReviewAssumption ==
    /\ MaxPending \in Nat \ {0} /\ ReviewCount \in 0..MaxPending
    /\ IsFiniteSet(Facts) /\ None \notin Seq(Facts)

(* It takes a failure to make a candidate. *)
ASSUME OftenAssumption == Often \in Nat \ {0}

(* No task is named like a commit. *)
ASSUME ExperiencesAssumption ==
    Shapes \cap Commits = {} /\ Window \in Nat /\ Near \in Nat

ASSUME MailAssumption == MailOf \in [Copies -> Mails] /\ MaxTold \in Nat \ {0}

P == INSTANCE Prep WITH run <- briefing
V == INSTANCE Vault WITH now <- edits, MaxTime <- MaxEdits
I == INSTANCE WebIndex
A == INSTANCE Proposals WITH MaxId <- MaxProposals
R == INSTANCE Review WITH file <- review
F == INSTANCE Steward WITH seen <- listed, told <- tellings, lost <- mailLost,
        Fast <- Mails
J == INSTANCE Steward WITH seen <- listed, told <- tellings, lost <- mailLost,
        Fast <- {}
L == INSTANCE Lessons
X == INSTANCE Experiences WITH log <- signals, mark <- reached, nodes <- experiences,
        cycle <- harvest, told <- deployed, replays <- again,
        MaxLog <- MaxSignals

AllInit ==
    /\ side \in {"board", "prep", "vault", "index", "proposals", "review",
                  "fast", "judged", "lessons", "experiences"}
    /\ Init /\ P!Init /\ V!Init /\ I!Init /\ A!Init /\ R!Init /\ F!Init
    /\ L!Init /\ X!Init

OfBoard ==
    side = "board" /\ Next
    /\ UNCHANGED <<side, prepVars, vaultVars, indexVars, proposalVars,
                   reviewVars, mailVars, lessonVars, experienceVars>>
OfPrep ==
    side = "prep" /\ P!Next
    /\ UNCHANGED <<side, boardVars, vaultVars, indexVars, proposalVars,
                   reviewVars, mailVars, lessonVars, experienceVars>>
OfVault ==
    side = "vault" /\ V!Next
    /\ UNCHANGED <<side, boardVars, prepVars, indexVars, proposalVars,
                   reviewVars, mailVars, lessonVars, experienceVars>>
OfIndex ==
    side = "index" /\ I!Next
    /\ UNCHANGED <<side, boardVars, prepVars, vaultVars, proposalVars,
                   reviewVars, mailVars, lessonVars, experienceVars>>
OfProposals ==
    side = "proposals" /\ A!Next
    /\ UNCHANGED <<side, boardVars, prepVars, vaultVars, indexVars, reviewVars,
                   mailVars, lessonVars, experienceVars>>
OfReview ==
    side = "review" /\ R!Next
    /\ UNCHANGED <<side, boardVars, prepVars, vaultVars, indexVars,
                   proposalVars, mailVars, lessonVars, experienceVars>>
OfMail ==
    /\ (side = "fast" /\ F!Next) \/ (side = "judged" /\ J!Next)
    /\ UNCHANGED <<side, boardVars, prepVars, vaultVars, indexVars,
                   proposalVars, reviewVars, lessonVars, experienceVars>>
OfLessons ==
    side = "lessons" /\ L!Next
    /\ UNCHANGED <<side, boardVars, prepVars, vaultVars, indexVars,
                   proposalVars, reviewVars, mailVars, experienceVars>>
OfExperiences ==
    side = "experiences" /\ X!Next
    /\ UNCHANGED <<side, boardVars, prepVars, vaultVars, indexVars,
                   proposalVars, reviewVars, mailVars, lessonVars>>
AllNext == \/ OfBoard \/ OfPrep \/ OfVault \/ OfIndex
           \/ OfProposals \/ OfReview \/ OfMail
           \/ OfLessons \/ OfExperiences

AllSpec == AllInit /\ [][AllNext]_all

Symmetry == Permutations(Signatures)
-----------------------------------------------------------------------------
(* Every part keeps its types (stated in its module). *)
AllTypeOK ==
    CASE side = "board" -> TypeOK
      [] side = "prep" -> P!TypeOK
      [] side = "vault" -> V!TypeOK
      [] side = "index" -> I!TypeOK
      [] side = "proposals" -> A!TypeOK
      [] side = "review" -> R!TypeOK
      [] side = "lessons" -> L!TypeOK
      [] side = "experiences" -> X!TypeOK
      [] OTHER -> F!TypeOK

(* The owner is not bothered twice: an event is asked about once before its  *)
(* day and once on it, a proposal that was denied is not put again, nor is   *)
(* one that is open, a fact that was answered is not asked about again, and  *)
(* the owner is told once of a mail, as long as polls do not overlap.        *)
NotBotheredTwice ==
    CASE side = "prep" -> P!AskedSparingly
      [] side = "proposals" -> A!DeniedForGood /\ A!AskedOnce
      [] side = "review" -> R!AnsweredIsGone
      [] side \in {"fast", "judged"} -> F!ToldOnce
      [] OTHER -> TRUE

(* What is kept is found again as it is: a document every later reindex      *)
(* passes over is served as it is, a page is found with the text that is     *)
(* stored, an answer about an event stays, the numbers of a fact review are  *)
(* those of its file, and a flagged mail is in a digest or a report.         *)
KeptIsFound == CASE side = "vault" -> V!PassedOverIsCurrent
                 [] side = "index" -> I!FoundAsStored /\ I!MissingForAReason
                 [] side = "prep" -> P!AnswersAreKept
                 [] side = "review" -> R!NumbersAreTrue /\ R!ListIsShort
                 [] side = "judged" -> J!FlaggedIsKept
                 [] OTHER -> TRUE

(* What is learned was earned: a lesson that is live comes from a failure    *)
(* that recurred, what the owner said is not lost in a batch, and an         *)
(* experience has the evidence of signals and deployments, each counted once.*)
LearnedIsEarned ==
    CASE side = "lessons" -> L!LiveMeansRecurred /\ L!AuthorityIsHeard
      [] side = "experiences" -> /\ X!EvidenceIsSignals /\ X!CommitOnce
                                 /\ X!LiveOnce /\ X!RecentFirst
      [] OTHER -> TRUE
=============================================================================
