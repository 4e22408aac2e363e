------------------------------ MODULE DinqAdapter ------------------------------
(* The tools of the Dinq adapter, which calls dinq-server for the user. *)
EXTENDS ToolPlans

get == Reading

post == Writing

getFlowStatus == Unchecked(<<get>>)

getUserData == Unchecked(<<get>>)

(* The board is found by the user's domain, which the first reply must hold. *)
getCardBoard == Unchecked(<<Needed(get), get>>)

(* A POST that changes nothing. *)
validateCardURL == Checked(<<Reading>>)

(* The generation of a card's content, once the card is there. *)
generate == [post EXCEPT !.effect = "follow"]

(* Faulty variant: the result of the generation is the tool's. *)
addCardGenerated == Checked(<<Last(post), generate>>)

(* Faulty variant: no matter whether there is a card. *)
addCardTried == Checked(<<Tried(post), generate>>)

(* The reply names the card's datasource, or there is nothing to generate;  *)
(* what becomes of the generation is not looked at.                         *)
addCard == Checked(<<Last(post), Tried(generate)>>)

(* A GET that deletes. *)
deleteCard == Checked(<<[get EXCEPT !.effect = "main"]>>)

updateCardLayout == Checked(<<post>>)

initCardBoard == Checked(<<post>>)

regenerateCards == Unchecked(<<post>>)

(* Faulty variant: what is a GET is marked as reading. *)
ToolsByMethod ==
    [READ |-> {"get_flow_status", "get_user_data", "get_card_board", "validate_card_url",
               "delete_card"},
     WRITE |-> {"add_card", "update_card_layout", "init_card_board", "regenerate_cards"}]

(* How the descriptions mark them. *)
Tools == [READ |-> {"get_flow_status", "get_user_data", "get_card_board", "validate_card_url"},
          WRITE |-> {"add_card", "delete_card", "update_card_layout", "init_card_board",
                     "regenerate_cards"}]

Execute == [get_flow_status |-> getFlowStatus, get_user_data |-> getUserData,
            get_card_board |-> getCardBoard, validate_card_url |-> validateCardURL,
            add_card |-> addCard, delete_card |-> deleteCard,
            update_card_layout |-> updateCardLayout, init_card_board |-> initCardBoard,
            regenerate_cards |-> regenerateCards]
=============================================================================
