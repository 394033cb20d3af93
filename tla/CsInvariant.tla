------------------------------ MODULE CsInvariant ------------------------------
(***************************************************************************)
(* What is always true of the chat's threads and polls between their steps: *)
(* the strengthening under which the properties of CsChat are inductive.    *)
(***************************************************************************)
EXTENDS CsChat

(* A thread past its first read knows its conversation, and an operator's    *)
(* pending draft action knows its row.                                     *)
ThreadsKnow ==
  /\ \A t \in Threads :
       pc[t] \notin {"idle", "insert"} \cup Ended => chat[t] \in Convs
  /\ \A o \in Operators :
       pc[o] \in {"picked", "send", "drop"} => target[o] \in AiSays

(* A row is inserted once: before its thread's INSERT it does not exist.    *)
RowsAreFresh ==
  /\ \A w \in Writers :
       pc[w] \in {"idle", "insert", "append"} => row[MessageOf(w)] = None
  /\ \A p \in Posts :
       pc[p] \in {"idle", "insert", "append", "respond", "compose", "ask",
                  "draft"} => row[<<"ai", p>>] = None
  /\ \A o \in Operators :
       pc[o] \in {"idle", "reply"} => row[<<"admin", o>>] = None

(* The owner's row is there when the response is sent; only the assistant    *)
(* drafts.                                                                 *)
RowsAreThere ==
  /\ \A p \in Posts : pc[p] = "respond" => IsSent(<<"owner", p>>)
  /\ \A m \in Messages : IsDraft(m) => m \in AiSays

(* Who is in ai mode, or composes in it, has been trusted with it.          *)
TrustIsRecorded ==
  /\ \A c \in Convs : mode[c] = "ai" => c \in trusted
  /\ \A p \in Posts : pc[p] = "ask" /\ stance[p] = "ai" => chat[p] \in trusted

ChatKnowledge ==
  ThreadsKnow /\ RowsAreFresh /\ RowsAreThere /\ TrustIsRecorded

(* Threads, rows and polls name conversations that exist, a poll of the      *)
(* console that is not stale the selected one; and a thread that has not     *)
(* inserted its conversation finds the name free.                          *)
ThreadsName ==
  \A t \in Threads : chat[t] # None => convStatus[chat[t]] # "none"
RowsName ==
  \A m \in Messages : Exists(m) => convStatus[row[m].conv] # "none"
PollsName ==
  /\ selected # None => convStatus[selected] # "none"
  /\ \A s \in Polls : poll[s].pc # "idle" =>
       /\ poll[s].conv \in Convs /\ convStatus[poll[s].conv] # "none"
       /\ s \in ConsolePolls /\ ~poll[s].stale => poll[s].conv = selected
NamesAreFresh ==
  \A w \in Writers : pc[w] \in {"idle", "insert"} => convStatus[w] = "none"
ConversationsExist == ThreadsName /\ RowsName /\ PollsName /\ NamesAreFresh

(* A poll leaves with a position up to which its reader lacks nothing, and   *)
(* its page completes what the reader lacks up to the page's last row.      *)
PollsComplete ==
  NoneResolved =>
    \A s \in Polls : \A m \in Messages :
      /\ poll[s].pc # "idle" /\ ~poll[s].stale
      /\ IsSent(m) /\ row[m].conv = poll[s].conv
      => /\ HasUpTo(Reader(s), m, poll[s].after)
         /\ poll[s].page # {} =>
              m \in poll[s].page \/ HasUpTo(Reader(s), m, poll[s].top)

(* With NothingSkipped itself, what is inductive about the cursors.         *)
CursorKnowledge == ConversationsExist /\ PollsComplete

(* No reader's cursor passes a message that was written promptly, neither   *)
(* on the screen nor by a page that is still on its way (message-store.ts). *)
CursorsAreSafe == CursorKnowledge /\ NothingSkipped
===============================================================================
