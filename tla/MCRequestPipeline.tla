-------------------------- MODULE MCRequestPipeline -------------------------
(***************************************************************************)
(* RequestPipeline over conversations that use each stage, transform and   *)
(* conversion at least once, against one candidate of each kind or two.    *)
(***************************************************************************)
EXTENDS EmbeddingCalls

MCLines == {"hello", "secret", "masked", "found", "prompt", "thought", "thought2",
            "json", "notjson", "ok", "error", "row", "escape", "again", "omitted"}
MCData == {"data_image", "url_file", "audio"}
MCFunctions == {"read", "list", "schema"}
MCTraits == [l \in MCLines |-> CASE l = "escape" -> {"ansi"} [] l = "ok" -> {"passing"}
                                 [] l = "error" -> {"diagnostic"} [] OTHER -> {}]
MCKeepEnds == [c \in {"git", "package", "generic"} |-> [head |-> 1, tail |-> 1]]
MCFlatBudget == [low |-> 1, medium |-> 2, high |-> 3]
MCTraces == {<<"thought">>, <<"thought2">>}
MCFreshIds == <<"g1", "g2">>
MCToolResult == [read |-> <<"row", "row", "row", "secret">>,
                 list |-> <<"escape", "ok", "ok", "error">>, schema |-> <<>>]

NoParams == [p \in SamplingParams |-> Unset]
Some(ps) == [p \in SamplingParams |-> IF p \in ps THEN "v" ELSE Unset]

Plain == [model |-> "m", preset |-> Unset, provider |-> Unset,
          messages |-> <<Message("user", <<"hello">>)>>, params |-> NoParams,
          max_tokens |-> Unset, tools |-> Unset, tool_choice |-> Unset,
          response_format |-> Unset, reasoning |-> Unset, transforms |-> {},
          web_search |-> FALSE, stream |-> FALSE]

Attached == [Message("user", <<>>) EXCEPT
  !.content = <<[kind |-> "image_url", body |-> "data_image"], TextPart(<<"secret">>),
                [kind |-> "file", body |-> "url_file"], TextPart(<<"hello">>)>>,
  !.cache_control = TRUE]
Spoken == [Message("user", <<"hello">>) EXCEPT
  !.content = @ \o <<[kind |-> "input_audio", body |-> "audio"]>>]
CallOf(id, name, arguments) == [id |-> id, name |-> name, arguments |-> arguments]
Asking(calls) == [Message("assistant", <<>>) EXCEPT !.content = Unset, !.tool_calls = calls]
Result(id, name) == [Message("tool", MCToolResult[name]) EXCEPT !.tool_call_id = id]

Thinking(effort, max_tokens, exclude) ==
  [effort |-> effort, max_tokens |-> max_tokens, exclude |-> exclude]

(* An empty request, and one that no configuration knows the preset of.    *)
Bad == { [Plain EXCEPT !.messages = <<>>], [Plain EXCEPT !.preset = "unknown"] }
(* Presets, search and screening.                                          *)
Screened_ == { [Plain EXCEPT !.preset = "house", !.web_search = TRUE,
                             !.messages = <<Attached, Message("assistant", <<"ok">>)>>],
               [Plain EXCEPT !.web_search = TRUE,
                             !.messages = <<Message("system", <<"secret">>), Spoken>>] }
(* Tools, thinking and streams.                                            *)
Tooled == { [Plain EXCEPT !.tools = {"read", "list"}, !.tool_choice = "auto", !.stream = stream,
                          !.reasoning = thinking, !.max_tokens = 4] :
              stream \in BOOLEAN, thinking \in {Thinking("high", Unset, FALSE),
                                                Thinking(Unset, 6, TRUE), Unset} }
Formatted == { [Plain EXCEPT !.response_format = format, !.stream = stream] :
                 format \in {"schema", "json_object"}, stream \in BOOLEAN }
Required == { [Plain EXCEPT !.provider = "require", !.params = Some(ps),
                            !.messages[1].cache_control = mark,
                            !.reasoning = Thinking("low", Unset, FALSE)] :
                ps \in {{"top_k"}, {"seed", "temperature"}, {"min_p"}}, mark \in BOOLEAN }
(* A long tool conversation to compact and truncate.                       *)
Long == { [Plain EXCEPT !.transforms = transforms, !.max_tokens = 2, !.tools = {"read", "list"},
            !.messages = <<Message("system", <<"prompt">>), Message("user", <<"hello">>),
                           Asking(<<CallOf("c1", "read", <<"json">>), CallOf("c2", "list", <<"notjson">>)>>),
                           Result("c2", "list"), Result("c1", "read"),
                           Message("user", <<"hello">>)>>] :
          transforms \in {{"rtk"}, {"middle-out"}, {"rtk", "middle-out"}} }

(* A conversation a tool's caller sends, with a line a guardrail would mask. *)
MCToolCalls == { [model |-> "m", temperature |-> t, max_tokens |-> 4,
                  messages |-> <<[role |-> "system", content |-> <<"prompt">>],
                                 [role |-> "user", content |-> <<"hello", "secret">>],
                                 [role |-> "assistant", content |-> <<"ok">>],
                                 [role |-> "user", content |-> <<"again">>]>>] :
                 t \in {"v", Unset} }

MCInputs == {<<>>, <<<<"hello">>>>, <<<<"hello">>, <<"ok">>, <<"hello", "row">>>>}

MCRequests == Bad \cup Screened_ \cup Tooled \cup Formatted \cup Required \cup Long

House == [house |-> [model |-> "m", system_prompt |-> <<"prompt">>, provider |-> Unset,
                     max_tokens |-> 6, params |-> Some({"seed"})]]
Masking == [action |-> "redact", pattern |-> {"secret"}, replacement |-> "masked"]
Blocking == [action |-> "block", pattern |-> {"found"}, replacement |-> "masked"]

C(kind, context_length) == [kind |-> kind, context_length |-> context_length]
Chains == { <<C("anthropic", 8), C("openai", Unset)>>, <<C("gemini", 7), C("openai", 12)>>,
            <<C("openai", 9), C("anthropic", Unset)>> }

MCConfigs == { [presets |-> House, guardrails |-> guardrails, moderation |-> TRUE,
                web_search |-> TRUE, chain |-> chain] :
                 guardrails \in {<<Masking>>, <<Masking, Blocking>>}, chain \in Chains }
MCSearchResults == {<<"found">>, <<"secret">>}

TextBlock(lines) == [type |-> "text", id |-> Unset, name |-> Unset, body |-> lines]
Thought(line) == [type |-> "thinking", id |-> Unset, name |-> Unset, body |-> <<line>>]
UseOf(id, name) == [type |-> "tool_use", id |-> id, name |-> name, body |-> <<"json">>]
A(blocks, stop) == [blocks |-> blocks, stop |-> stop, fresh |-> 1, written |-> 2,
                    cached |-> 4, output |-> 3]

MCAnswers == { A(<<Thought("thought"), TextBlock(<<"hello", "ok">>)>>, "end"),
               A(<<TextBlock(<<"hello">>)>>, "max"),
               A(<<Thought("thought"), TextBlock(<<"ok">>), UseOf("c1", "list"),
                   UseOf("c2", "read")>>, "tool"),
               A(<<Thought("thought2"), UseOf("c3", "read")>>, "tool"),
               A(<<Thought("thought2"), UseOf("c1", "read")>>, "tool"),
               A(<<UseOf("c1", "schema")>>, "tool") }
=============================================================================
